-------------------------- MODULE InventoryProofs --------------------------
(***************************************************************************)
(* Theorems about Inventory for every set of hosts, of rows they refer to, *)
(* and of requests: that the stores follow the database, and that saving   *)
(* or moving a host changes only the references its user toggled, each     *)
(* with the exceptions the property names; and the types.                  *)
(***************************************************************************)
EXTENDS Inventory, TLAPS, FiniteSetTheorems

Forms == {"new", "edit", "row"}
Reads == {"hosts", "rows"}
HostIds == HOSTS \cup {NoHost}
Tables == [hosts : SUBSET HOSTS, rows : SUBSET ROWS, refs : [HOSTS -> SUBSET ROWS]]
HostDialogs == [open : BOOLEAN, busy : BOOLEAN, h : HostIds, had : SUBSET ROWS,
                refs : SUBSET ROWS, toggled : SUBSET ROWS, sure : BOOLEAN]
Requests == [st : {"free", "asked", "ok"},
             op : {"none", "hosts", "rows", "save", "links", "newRow", "delRow", "delHost", "move"},
             by : {"none", "new", "edit", "row"}, h : HostIds,
             r : SUBSET (ROWS \cup {"created"}), refs : SUBSET ROWS,
             parts : SUBSET SUBSET Cells, got : Tables,
             stale : BOOLEAN, late : BOOLEAN, toggled : SUBSET ROWS, hasty : BOOLEAN]

(* The types. *)
Shape ==
    /\ kind \in KINDS
    /\ db \in Tables
    /\ seen \in Tables
    /\ born \in SUBSET (HOSTS \cup ROWS)
    /\ req \in [REQS -> Requests]
    /\ form \in [Forms -> HostDialogs]
    /\ dubious \in SUBSET Cells

AllParts(op) == IF op = "hosts" THEN HostParts ELSE RowParts

(* What a request can be doing, and for whom. *)
StageOf(c) ==
    /\ c.st = "free" <=> c.op = "none"
    /\ c.op \notin Reads => c.parts = {}
    /\ c.op \in Reads => c.parts \subseteq AllParts(c.op) /\ (c.st = "ok" <=> c.parts = {})
    /\ c.op \in {"save", "links"} => c.by \in {"new", "edit"}
    /\ c.op = "newRow" => c.r \subseteq ROWS
    /\ c.op = "rows" => c.by \in {"none", "new", "edit"}
    /\ c.op \in {"hosts", "delRow", "delHost", "move"} => c.by = "none"
    /\ c.by = "edit" \/ c.op \in {"links", "delHost", "move"} => c.h \in HOSTS
    /\ c.op = "save" /\ c.st = "ok" => c.h \in HOSTS
Stages == \A q \in REQS : StageOf(req[q])

(* A dialog that edits a host knows which, and only such a dialog does; the two
   others are never open together, and one that is sure has nothing over it. *)
Edits == /\ form["edit"].open => form["edit"].h \in HOSTS
         /\ form["new"].h = NoHost
         /\ ~(form["new"].open /\ form["row"].open)
         /\ \A f \in {"new", "edit"} : form[f].open /\ form[f].sure => OnTop(f)

(* Only ids given out occur, and nothing is linked to a host not given out. *)
BornTable(t) ==
    /\ t.hosts \subseteq born /\ t.rows \subseteq born
    /\ \A h \in HOSTS : t.refs[h] \subseteq born /\ (h \notin born => t.refs[h] = {})
BornRequest(c) ==
    /\ BornTable(c.got)
    /\ c.refs \subseteq born
    /\ c.op = "newRow" => c.r \subseteq born
    /\ c.h \in born \cup {NoHost}
BornForm(x) == x.refs \subseteq born /\ x.had \subseteq born /\ x.h \in born \cup {NoHost}
Born ==
    /\ BornTable(db) /\ BornTable(seen)
    /\ \A q \in REQS : BornRequest(req[q])
    /\ \A f \in Forms : BornForm(form[f])

ForeignKeys ==
    \A h \in HOSTS : db.refs[h] \subseteq IF h \in db.hosts THEN db.rows ELSE {}

(* Executed, its answer not yet applied; Sole: and nothing was executed since. *)
Waiting(q) == req[q].st = "ok" /\ ~Reading(q)
Sole(q) == Waiting(q) /\ ~req[q].stale
OneSole == \A p, q \in REQS : Sole(p) /\ Sole(q) => p = q

SetsRefs(q) == \/ req[q].op \in {"links", "move"}
               \/ Column /\ req[q].op = "save"

(* The database holds what the last command wrote. *)
Held == \A q \in REQS : Sole(q) =>
    /\ req[q].op \in {"save", "links"} => req[q].h \in db.hosts
    /\ req[q].op = "links" \/ (Column /\ req[q].op = "save") => db.refs[req[q].h] = req[q].refs
    /\ req[q].op = "newRow" => req[q].r \subseteq db.rows
    /\ req[q].op = "delRow" => req[q].r \cap db.rows = {}
    /\ req[q].op = "delHost" => req[q].h \notin db.hosts

(* What was read, and not outdated since, is what the tables hold. *)
ReadTrue == \A q \in REQS : Reading(q) /\ ~req[q].stale =>
    \A cell \in (UNION AllParts(req[q].op)) \ (UNION req[q].parts) : req[q].got[cell] = db[cell]

(* The store's hosts are those of the database, but for the last command. *)
HostsSure == "hosts" \notin dubious /\ \A q \in REQS :
    Waiting(q) /\ req[q].op \in {"save", "delHost"} => ~req[q].stale
HostsFollow == HostsSure =>
    /\ \A h \in HOSTS : h \in db.hosts <=>
          /\ h \in seen.hosts \/ \E q \in REQS : Sole(q) /\ req[q].op = "save" /\ req[q].h = h
          /\ ~\E q \in REQS : Sole(q) /\ req[q].op = "delHost" /\ req[q].h = h
    /\ \A q \in REQS : Sole(q) /\ req[q].op = "save" /\ req[q].r = {} => req[q].h \in seen.hosts

RowsSure == "rows" \notin dubious /\ \A q \in REQS :
    Waiting(q) /\ req[q].op \in {"newRow", "delRow"} => ~req[q].stale
RowsFollow == RowsSure =>
    \A r \in ROWS : r \in db.rows <=>
       /\ r \in seen.rows \/ \E q \in REQS : Sole(q) /\ req[q].op = "newRow" /\ r \in req[q].r
       /\ ~\E q \in REQS : Sole(q) /\ req[q].op = "delRow" /\ r \in req[q].r

RefsSure == "refs" \notin dubious /\ \A q \in REQS : Waiting(q) /\ SetsRefs(q) => ~req[q].stale
Rewritten(h) == \E q \in REQS : Sole(q) /\ SetsRefs(q) /\ req[q].h = h
RefsFollow == RefsSure => \A h \in db.hosts :
    \/ Rewritten(h)
    \/ Column /\ h \notin seen.hosts
    \/ seen.refs[h] \cap db.rows = db.refs[h]
GroupsShown ==
    RefsSure /\ kind = "group" /\ (\A q \in REQS : Waiting(q) => req[q].op # "delRow") =>
       \A h \in db.hosts :
          \/ Rewritten(h)
          \/ h \notin seen.hosts
          \/ seen.refs[h] \subseteq db.rows

Differ(a, b) == (a \ b) \cup (b \ a)

(* A command under way is the form's own, and carries what the form holds but
   for what was toggled. *)
FormFits(x, f, c) ==
    /\ c.by = f /\ c.op \in {"save", "links", "newRow"}
    /\ c.op \in {"save", "links"} =>
          /\ Differ(x.refs, c.refs) \subseteq x.toggled
          /\ f = "edit" => c.h = x.h

(* What a form that is sure of its links would change is what was toggled. *)
FormTrue == \A f \in {"new", "edit"} : form[f].open /\ form[f].sure =>
    /\ f = "new" => form[f].refs \subseteq form[f].toggled
    /\ f = "edit" /\ form[f].h \in db.hosts =>
          Differ(form[f].refs, db.refs[form[f].h]) \cap db.rows \subseteq form[f].toggled
    /\ \A q \in REQS : req[q].st # "free" /\ ~Reading(q) => FormFits(form[f], f, req[q])

(* What a command that is not hasty will change is what was toggled. *)
Promises(q) ==
    /\ req[q].op \in {"save", "links", "move"}
    /\ req[q].st = "asked" \/ (Sole(q) /\ req[q].op = "save" /\ ~Column)
    /\ ~req[q].hasty
RequestFits(c) ==
    /\ c.h = NoHost => c.refs \subseteq c.toggled
    /\ c.h \in db.hosts => Differ(c.refs, db.refs[c.h]) \cap db.rows \subseteq c.toggled
AskedTrue == \A q \in REQS : Promises(q) => RequestFits(req[q])

(* A refresh that is not late was asked for by the opening that is on screen. *)
OfThisOpening == \A q \in REQS : \A f \in {"new", "edit"} :
    req[q].op = "rows" /\ req[q].by = f /\ form[f].open /\ ~req[q].late => req[q].h = form[f].h

Stores == /\ ForeignKeys /\ OneSole /\ Held /\ ReadTrue
          /\ HostsFollow /\ RowsFollow /\ RefsFollow /\ GroupsShown
InventoryTyped == Shape /\ Stages /\ Edits /\ Born
Intent == FormTrue /\ AskedTrue /\ OfThisOpening
InventoryInv == InventoryTyped /\ Stores /\ Intent

----------------------------------------------------------------------------
(* The tables and requests *)

(* A mixture of two copies of the tables, and what each cell of it is. *)
LEMMA Mixture ==
    ASSUME NEW t \in Tables, NEW u \in Tables, NEW part
    PROVE  LET m == [f \in Cells |-> IF f \in part THEN t[f] ELSE u[f]] IN
           /\ m \in Tables
           /\ m.hosts = IF "hosts" \in part THEN t.hosts ELSE u.hosts
           /\ m.rows = IF "rows" \in part THEN t.rows ELSE u.rows
           /\ m.refs = IF "refs" \in part THEN t.refs ELSE u.refs
<1> DEFINE m == [f \in Cells |-> IF f \in part THEN t[f] ELSE u[f]]
<1>1. /\ m.hosts = IF "hosts" \in part THEN t.hosts ELSE u.hosts
      /\ m.rows = IF "rows" \in part THEN t.rows ELSE u.rows
      /\ m.refs = IF "refs" \in part THEN t.refs ELSE u.refs
    BY DEF Cells
<1>2. m = [hosts |-> m.hosts, rows |-> m.rows, refs |-> m.refs]
    BY DEF Cells
<1> QED BY <1>1, <1>2 DEF Tables

(* An unused slot, and a request as it is made. *)
LEMMA EmptyTables == [hosts |-> {}, rows |-> {}, refs |-> NoRefs] \in Tables
BY DEF Tables, NoRefs

(* A free slot is a request. *)
LEMMA UnaskedTyped == Unasked \in Requests
<1> DEFINE g == [hosts |-> {}, rows |-> {}, refs |-> NoRefs]
<1>1. g \in Tables
    BY EmptyTables
<1> HIDE DEF g
<1>2. [st |-> "free", op |-> "none", by |-> "none", h |-> NoHost, r |-> {}, refs |-> {},
       parts |-> {}, got |-> g,
       stale |-> FALSE, late |-> FALSE, toggled |-> {}, hasty |-> FALSE] \in Requests
    BY <1>1 DEF Requests, HostIds
<1> QED BY <1>2 DEF g, Unasked

Bys == {"none", "new", "edit", "row"}
Asks == {"hosts", "rows", "save", "links", "newRow", "delRow", "delHost", "move"}

(* As Request makes them; with these fields. *)
Plain(c) ==
    /\ c \in Requests /\ c.st = "asked" /\ c.op \in Asks
    /\ c.parts = IF c.op \in Reads THEN AllParts(c.op) ELSE {}
    /\ c.got = [hosts |-> {}, rows |-> {}, refs |-> NoRefs]
    /\ c.stale = FALSE /\ c.late = FALSE
Made(c, op, by, h, r, refs, t, b) ==
    /\ Plain(c)
    /\ c.op = op /\ c.by = by /\ c.h = h /\ c.refs = refs
    /\ c.r = r /\ c.toggled = t /\ c.hasty = b

(* What Request makes of its arguments. *)
LEMMA RequestMade ==
    ASSUME NEW op, NEW by, NEW h, NEW r, NEW refs,
           op \in Asks, by \in Bys, h \in HostIds, r \in SUBSET ROWS, refs \in SUBSET ROWS
    PROVE  Made(Request(op, by, h, r, refs), op, by, h, r, refs, {}, FALSE)
<1> DEFINE g == [hosts |-> {}, rows |-> {}, refs |-> NoRefs]
           p == IF op \in Reads THEN AllParts(op) ELSE {}
           c == [st |-> "asked", op |-> op, by |-> by, h |-> h, r |-> r, refs |-> refs,
                 parts |-> p, got |-> g,
                 stale |-> FALSE, late |-> FALSE, toggled |-> {}, hasty |-> FALSE]
<1>1. g \in Tables
    BY EmptyTables
<1>2. p \in SUBSET SUBSET Cells
    BY DEF AllParts, HostParts, RowParts, Cells
<1>3. (CASE op = "hosts" -> HostParts [] op = "rows" -> RowParts [] OTHER -> {}) = p
    BY DEF AllParts, Reads, Asks
<1>4. Unasked = [st |-> "free", op |-> "none", by |-> "none", h |-> NoHost, r |-> {}, refs |-> {},
                 parts |-> {}, got |-> g,
                 stale |-> FALSE, late |-> FALSE, toggled |-> {}, hasty |-> FALSE]
    BY DEF Unasked
<1> HIDE DEF g, p
<1>5. Request(op, by, h, r, refs) = c
    <2> DEFINE d == CASE op = "hosts" -> HostParts [] op = "rows" -> RowParts [] OTHER -> {}
    <2>1. Request(op, by, h, r, refs)
              = [Unasked EXCEPT !.st = "asked", !.op = op, !.by = by, !.h = h, !.r = r,
                                !.refs = refs, !.parts = d]
        BY Zenon DEF Request
    <2>2. d = p
        BY <1>3
    <2> HIDE DEF d
    <2> QED BY <1>4, <2>1, <2>2
<1>6. c \in Requests
    BY <1>1, <1>2 DEF Requests, Asks, Bys
<1> QED BY <1>5, <1>6 DEF g, p, Made, Plain

(* The terms that calls of Request are made of. *)
LEMMA Terms ==
    /\ Asks = {"hosts", "rows", "save", "links", "newRow", "delRow", "delHost", "move"}
    /\ \A op \in {"hosts", "rows", "save", "newRow", "delRow", "delHost", "move"} : op \in Asks
    /\ "none" \in Bys /\ (\A f \in Forms : f \in Bys)
    /\ NoHost \in HostIds /\ {} \in SUBSET ROWS /\ (\A h \in HOSTS : h \in HostIds)
BY DEF Asks, Bys, Forms, HostIds

(* The same with the mark of the form that asks. *)
LEMMA Marked ==
    ASSUME NEW op, NEW by, NEW h, NEW r, NEW refs, NEW c, NEW t, NEW b,
           Made(c, op, by, h, r, refs, {}, FALSE), t \in SUBSET ROWS, b \in BOOLEAN
    PROVE  Made([c EXCEPT !.toggled = t, !.hasty = b], op, by, h, r, refs, t, b)
BY DEF Requests, Made, Plain

----------------------------------------------------------------------------
(* Steps that only ask *)

(* One dialog at most has nothing over it, and only that one can be sure. *)
LEMMA OneOnTop ==
    ASSUME InventoryTyped
    PROVE  /\ \A f, g \in Forms : OnTop(f) /\ OnTop(g) => f = g
           /\ \A f \in {"new", "edit"}, g \in Forms :
                 form[f].open /\ form[f].sure /\ OnTop(g) => f = g
BY DEF InventoryTyped, Edits, OnTop, Forms

(* With none open no dialog is sure. *)
LEMMA NoneOnTop ==
    ASSUME InventoryTyped, ~ModalOpen
    PROVE  /\ \A f \in Forms : ~OnTop(f)
           /\ \A f \in {"new", "edit"} : ~(form[f].open /\ form[f].sure)
BY DEF InventoryTyped, Shape, Edits, ModalOpen, Forms

Alike(x) ==
    /\ req'[x].st = req[x].st /\ req'[x].op = req[x].op
    /\ req[x].op \notin {"rows", "newRow"} => req'[x].h = req[x].h
    /\ req'[x].r = req[x].r /\ req'[x].refs = req[x].refs
    /\ req'[x].parts = req[x].parts /\ req'[x].got = req[x].got
    /\ req'[x].stale = req[x].stale
    /\ req'[x].toggled = req[x].toggled /\ req'[x].hasty = req[x].hasty
Kept(x) == Alike(x) /\ req'[x].by = req[x].by /\ req'[x].h = req[x].h
(* Asked now, or given up. *)
Anew(x) ==
    \/ /\ req[x].st = "free" /\ req'[x].st = "asked" /\ ~req'[x].stale
       /\ req'[x].op \in Reads => req'[x].parts = AllParts(req[x].op)'
    \/ /\ req[x].st = "asked" /\ req'[x] = Unasked

(* What the stores are compared by, but for reads. *)
Compared == /\ ForeignKeys /\ OneSole /\ Held
            /\ HostsFollow /\ RowsFollow /\ RefsFollow /\ GroupsShown

(* A step that changes neither the tables nor the stores, and applies no answer,
   keeps what the stores are compared by. *)
LEMMA QuietCompared ==
    ASSUME Compared, UNCHANGED <<kind, db, seen>>, dubious \subseteq dubious',
           \A x \in REQS : Alike(x) \/ Anew(x) \/ (Reading(x) /\ Reading(x)')
    PROVE  Compared'
<1>1. ASSUME NEW x \in REQS
      PROVE  /\ Waiting(x)' => Waiting(x) /\ Alike(x)
             /\ Waiting(x) => Waiting(x)' /\ Alike(x)
    <2>1. CASE Alike(x)
        BY <2>1 DEF Waiting, Alike, Reading
    <2>2. CASE Anew(x)
        BY <2>2 DEF Waiting, Anew, Reading, Unasked
    <2>3. CASE Reading(x) /\ Reading(x)'
        BY <2>3 DEF Waiting
    <2> QED BY <2>1, <2>2, <2>3
<1>2. ASSUME NEW x \in REQS
      PROVE  /\ Sole(x)' <=> Sole(x)
             /\ Sole(x) => Alike(x)
             /\ Waiting(x)' <=> Waiting(x)
             /\ Waiting(x) => Alike(x) /\ (SetsRefs(x)' <=> SetsRefs(x))
    BY <1>1 DEF Sole, Alike, SetsRefs, Column
<1>3. ForeignKeys' /\ OneSole' /\ Held'
    <2>1. ForeignKeys'
        BY DEF Compared, ForeignKeys
    <2>2. OneSole'
        BY <1>2 DEF Compared, OneSole
    <2>3. Held'
        BY <1>2 DEF Compared, Held, Alike, Column
    <2> QED BY <2>1, <2>2, <2>3
<1>5. HostsFollow'
    <2>1. HostsSure' => HostsSure
        BY <1>2 DEF HostsSure, Alike
    <2> QED BY <1>2, <2>1 DEF Compared, HostsFollow, Alike
<1>6. RowsFollow'
    <2>1. RowsSure' => RowsSure
        BY <1>2 DEF RowsSure, Alike
    <2> QED BY <1>2, <2>1 DEF Compared, RowsFollow, Alike
<1>7. RefsSure' => RefsSure
    BY <1>2 DEF RefsSure, Alike
<1>8. \A h : Rewritten(h)' <=> Rewritten(h)
    BY <1>2 DEF Rewritten, Alike, Sole, SetsRefs
<1>9. RefsFollow'
    BY <1>7, <1>8 DEF Compared, RefsFollow, Column
<1>10. GroupsShown'
    <2>1. (\A q \in REQS : Waiting(q) => req[q].op # "delRow")'
              => \A q \in REQS : Waiting(q) => req[q].op # "delRow"
        BY <1>2 DEF Alike
    <2> QED BY <1>7, <1>8, <2>1 DEF Compared, GroupsShown
<1> QED BY <1>3, <1>5, <1>6, <1>9, <1>10 DEF Compared

(* The same for the reads, which only Read changes. *)
LEMMA QuietStores ==
    ASSUME Stores, UNCHANGED <<kind, db, seen>>, dubious \subseteq dubious',
           \A x \in REQS : Alike(x) \/ Anew(x)
    PROVE  Stores'
<1>1. Compared'
    BY QuietCompared DEF Stores, Compared
<1>2. ReadTrue'
    <2> SUFFICES ASSUME NEW x \in REQS, Reading(x)', ~req'[x].stale,
                        NEW cell \in (UNION AllParts(req[x].op)') \ (UNION req'[x].parts)
                 PROVE  req'[x].got[cell] = db'[cell]
        BY DEF ReadTrue
    <2>1. CASE Alike(x)
        <3>1. /\ Reading(x) /\ ~req[x].stale
              /\ cell \in (UNION AllParts(req[x].op)) \ (UNION req[x].parts)
            BY <2>1 DEF Alike, Reading, AllParts, HostParts, RowParts, Column
        <3>2. req[x].got[cell] = db[cell]
            BY <3>1 DEF Stores, ReadTrue
        <3> QED BY <2>1, <3>2 DEF Alike
    <2>2. CASE Anew(x)
        <3>1. req'[x] # Unasked
            BY DEF Reading, Unasked
        <3>2. req'[x].parts = AllParts(req[x].op)'
            BY <2>2, <3>1 DEF Anew, Reading, Reads
        <3> QED BY <3>2 DEF AllParts
    <2> QED BY <2>1, <2>2
<1> QED BY <1>1, <1>2 DEF Stores, Compared

(* A request that can be made, as far as the stores go. *)
Askable(c) ==
    /\ c \in Requests /\ c.st = "asked" /\ ~c.stale
    /\ c.op \in Reads => c.parts = AllParts(c.op)
    /\ StageOf(c) /\ BornRequest(c)

(* Asking keeps the types of the requests and what is known of the stores. *)
LEMMA AskKeeps ==
    ASSUME InventoryTyped, Stores, UNCHANGED <<kind, db, seen, born, dubious>>,
           \A x \in REQS : Kept(x) \/ (req[x].st = "free" /\ \E c : Askable(c) /\ req'[x] = c)
    PROVE  Stages' /\ (\A x \in REQS : BornRequest(req[x])') /\ Stores'
<1>1. ASSUME NEW x \in REQS
      PROVE  Kept(x) \/ Anew(x)
    BY DEF Askable, Anew, AllParts, HostParts, RowParts, Column
<1>2. Stores'
    BY <1>1, QuietStores DEF Kept
<1>3. ASSUME NEW x \in REQS
      PROVE  StageOf(req[x])' /\ BornRequest(req[x])'
    <2>1. StageOf(req[x]) /\ BornRequest(req[x])
        BY DEF InventoryTyped, Stages, Born
    <2>2. ASSUME NEW c, Askable(c), req'[x] = c
          PROVE  StageOf(req[x])' /\ BornRequest(req[x])'
        <3>1. StageOf(c) /\ BornRequest(c)
            BY <2>2 DEF Askable
        <3>2. StageOf(req[x])'
            BY <2>2, <3>1 DEF StageOf, AllParts, HostParts, RowParts, Column
        <3> QED BY <2>2, <3>1, <3>2 DEF BornRequest, BornTable
    <2>3. CASE Kept(x)
        <3>1. StageOf(req[x])'
            BY <2>1, <2>3 DEF StageOf, AllParts, HostParts, RowParts, Column, Kept, Alike
        <3> QED BY <2>1, <2>3, <3>1 DEF BornRequest, BornTable, Kept, Alike
    <2> QED BY <2>2, <2>3
<1> QED BY <1>2, <1>3 DEF Stages

(* The same for Ask, which takes a free slot. *)
LEMMA AskStep ==
    ASSUME InventoryTyped, Stores, UNCHANGED <<kind, db, seen, born, dubious>>,
           NEW c, Askable(c), Ask(c)
    PROVE  /\ req' \in [REQS -> Requests]
           /\ Stages' /\ (\A x \in REQS : BornRequest(req[x])') /\ Stores'
           /\ \E q \in REQS : /\ req[q].st = "free" /\ req'[q] = c
                              /\ \A x \in REQS \ {q} : req'[x] = req[x]
<1>1. PICK q \in Slot : req' = [req EXCEPT ![q] = c]
    BY DEF Ask
<1>2. q \in REQS /\ req[q].st = "free"
    BY DEF Slot, OneId
<1>3. req \in [REQS -> Requests]
    BY DEF InventoryTyped, Shape
<1>4. req'[q] = c /\ \A x \in REQS \ {q} : req'[x] = req[x]
    BY <1>1, <1>2, <1>3
<1>5. \A x \in REQS : Kept(x) \/ (req[x].st = "free" /\ \E d : Askable(d) /\ req'[x] = d)
    BY <1>2, <1>4 DEF Kept, Alike
<1>6. Stages' /\ (\A x \in REQS : BornRequest(req[x])') /\ Stores'
    BY <1>2, <1>4, <1>5, AskKeeps
<1> QED BY <1>1, <1>2, <1>3, <1>4, <1>6 DEF Askable

----------------------------------------------------------------------------
(* The clicks *)

FormSame(f) ==
    /\ form'[f].open = form[f].open /\ form'[f].h = form[f].h /\ form'[f].refs = form[f].refs
    /\ form'[f].had = form[f].had /\ form'[f].toggled = form[f].toggled /\ form'[f].sure = form[f].sure

(* A new request keeps what the forms and the requests mean, if it is true itself. *)
LEMMA AskIntent ==
    ASSUME InventoryTyped, Intent, UNCHANGED <<kind, db>>, NEW c, c.st = "asked",
           c.op # "rows" \/ c.by = "none",
           NEW q \in REQS, req'[q] = c, \A x \in REQS \ {q} : req'[x] = req[x],
           \A f \in {"new", "edit"} : FormSame(f),
           \A f \in {"new", "edit"} : form[f].open /\ form[f].sure /\ c.op \notin Reads
                                         => FormFits(form[f], f, c),
           c.op \in {"save", "links", "move"} /\ ~c.hasty => RequestFits(c)
    PROVE  Intent'
<1>1. FormTrue'
    <2> SUFFICES ASSUME NEW f \in {"new", "edit"}, form'[f].open, form'[f].sure
                 PROVE  /\ f = "new" => form'[f].refs \subseteq form'[f].toggled
                        /\ f = "edit" /\ form'[f].h \in db'.hosts =>
                              Differ(form'[f].refs, db'.refs[form'[f].h]) \cap db'.rows
                                  \subseteq form'[f].toggled
                        /\ \A x \in REQS : req'[x].st # "free" /\ ~Reading(x)' =>
                                              FormFits(form'[f], f, req'[x])
        BY DEF FormTrue, FormFits, Differ
    <2>1. /\ form[f].open /\ form[f].sure
          /\ f = "new" => form[f].refs \subseteq form[f].toggled
          /\ f = "edit" /\ form[f].h \in db.hosts =>
                Differ(form[f].refs, db.refs[form[f].h]) \cap db.rows \subseteq form[f].toggled
          /\ \A x \in REQS : req[x].st # "free" /\ ~Reading(x) => FormFits(form[f], f, req[x])
        BY DEF FormSame, Intent, FormTrue
    <2>2. ASSUME NEW x \in REQS, req'[x].st # "free", ~Reading(x)'
          PROVE  FormFits(form'[f], f, req'[x])
        <3>1. CASE x = q
            <4>1. FormFits(form[f], f, c)
                BY <2>1, <2>2, <3>1 DEF Reading, Reads
            <4> QED BY <3>1, <4>1 DEF FormFits, FormSame, Differ
        <3>2. CASE x # q
            <4>1. FormFits(form[f], f, req[x])
                BY <2>1, <2>2, <3>2 DEF Reading
            <4> QED BY <3>2, <4>1 DEF FormFits, FormSame, Differ
        <3> QED BY <3>1, <3>2
    <2> QED BY <2>1, <2>2 DEF FormSame, Differ
<1>2. AskedTrue'
    <2> SUFFICES ASSUME NEW x \in REQS, Promises(x)'
                 PROVE  RequestFits(req[x])'
        BY DEF AskedTrue
    <2>1. CASE x = q
        BY <2>1 DEF Promises, RequestFits
    <2>2. CASE x # q
        <3>1. Promises(x)
            BY <2>2 DEF Promises, Sole, Waiting, Reading, Column
        <3> QED BY <2>2, <3>1 DEF Intent, AskedTrue, RequestFits
    <2> QED BY <2>1, <2>2
<1>3. OfThisOpening'
    BY DEF Intent, OfThisOpening, FormSame
<1> QED BY <1>1, <1>2, <1>3 DEF Intent

(* What makes a request that Request made askable. *)
LEMMA MadeAskable ==
    ASSUME NEW c, Plain(c),
           c.op # "links", c.refs \subseteq born, c.h \in born \cup {NoHost},
           c.op = "newRow" => c.r = {},
           c.op = "save" => c.by \in {"new", "edit"},
           c.op = "rows" => c.by \in {"none", "new", "edit"},
           c.op \in {"hosts", "delRow", "delHost", "move"} => c.by = "none",
           c.by = "edit" \/ c.op \in {"delHost", "move"} => c.h \in HOSTS
    PROVE  Askable(c)
<1>1. StageOf(c)
    <2>1. AllParts(c.op) # {}
        BY DEF AllParts, HostParts, RowParts
    <2> QED BY <2>1 DEF StageOf, Plain, Asks, Reads
<1>2. BornTable(c.got)
    <2>1. c.got.hosts = {} /\ c.got.rows = {} /\ \A g \in HOSTS : c.got.refs[g] = {}
        BY DEF Plain, NoRefs
    <2> QED BY <2>1 DEF BornTable
<1>3. BornRequest(c)
    BY <1>2 DEF BornRequest
<1> QED BY <1>1, <1>3 DEF Askable, Plain

(* Only requests and what a form is busy with have changed. *)
LEMMA AskInv ==
    ASSUME InventoryInv, UNCHANGED <<kind, db, seen, born, drawn, dubious>>,
           NEW c, Askable(c), Ask(c), c.op # "rows" \/ c.by = "none",
           form' \in [Forms -> HostDialogs], \A f \in Forms : FormSame(f),
           \A f \in {"new", "edit"} : form[f].open /\ form[f].sure /\ c.op \notin Reads
                                         => FormFits(form[f], f, c),
           c.op \in {"save", "links", "move"} /\ ~c.hasty => RequestFits(c)
    PROVE  InventoryInv'
<1>1. /\ req' \in [REQS -> Requests]
      /\ Stages' /\ (\A x \in REQS : BornRequest(req[x])') /\ Stores'
      /\ \E q \in REQS : /\ req[q].st = "free" /\ req'[q] = c
                         /\ \A x \in REQS \ {q} : req'[x] = req[x]
    BY AskStep DEF InventoryInv
<1>2. PICK q \in REQS : req'[q] = c /\ \A x \in REQS \ {q} : req'[x] = req[x]
    BY <1>1
<1>3. \A f \in {"new", "edit"} : FormSame(f)
    BY DEF Forms
<1>4. Intent'
    BY <1>2, <1>3, AskIntent DEF InventoryInv, Askable
<1>5. Shape'
    BY <1>1 DEF InventoryInv, InventoryTyped, Shape
<1>6. Edits'
    BY DEF InventoryInv, InventoryTyped, Edits, OnTop, FormSame, Forms
<1>7. Born'
    BY <1>1 DEF InventoryInv, InventoryTyped, Born, BornTable, BornForm, FormSame
<1> QED BY <1>1, <1>4, <1>5, <1>6, <1>7 DEF InventoryInv, InventoryTyped

(* A click outside the dialogs leaves them as they are. *)
LEMMA FormUnchanged ==
    ASSUME InventoryInv, UNCHANGED <<kind, form>>
    PROVE  form' \in [Forms -> HostDialogs] /\ \A f \in Forms : FormSame(f)
BY DEF InventoryInv, InventoryTyped, Shape, FormSame

(* A list or a picker is mounted: its rows, or the hosts, are fetched. *)
LEMMA MountRowsStep == InventoryInv /\ MountRows => InventoryInv'
<1> SUFFICES ASSUME InventoryInv, MountRows PROVE InventoryInv'
    OBVIOUS
<1>1. PICK c : c = Request("rows", "none", NoHost, {}, {})
    OBVIOUS
<1>2. Made(c, "rows", "none", NoHost, {}, {}, {}, FALSE)
    BY <1>1, Terms, RequestMade
<1>3. Askable(c)
    BY <1>2, MadeAskable DEF Made
<1>4. form' \in [Forms -> HostDialogs] /\ \A f \in Forms : FormSame(f)
    BY FormUnchanged DEF MountRows
<1>5. c.op = "rows" /\ c.by = "none" /\ Ask(c)
    BY <1>1, <1>2 DEF Made, MountRows
<1> QED BY <1>3, <1>4, <1>5, AskInv DEF MountRows, Reads

LEMMA MountHostsStep == InventoryInv /\ MountHosts => InventoryInv'
<1> SUFFICES ASSUME InventoryInv, MountHosts PROVE InventoryInv'
    OBVIOUS
<1>1. PICK c : c = Request("hosts", "none", NoHost, {}, {})
    OBVIOUS
<1>2. Made(c, "hosts", "none", NoHost, {}, {}, {}, FALSE)
    BY <1>1, Terms, RequestMade
<1>3. Askable(c)
    BY <1>2, MadeAskable DEF Made
<1>4. form' \in [Forms -> HostDialogs] /\ \A f \in Forms : FormSame(f)
    BY FormUnchanged DEF MountHosts
<1>5. c.op = "hosts" /\ c.by = "none" /\ Ask(c)
    BY <1>1, <1>2 DEF Made, MountHosts
<1> QED BY <1>3, <1>4, <1>5, AskInv DEF MountHosts, Reads

(* A tag is created from a picker, with the links that the form holds. *)
LEMMA PickerCreatesStep ==
    ASSUME InventoryInv, NEW g \in Forms, PickerCreates(g)
    PROVE  InventoryInv'
<1>1. g \in {"new", "edit"} /\ form[g].open /\ OnTop(g)
    BY DEF PickerCreates, OnTop, Forms
<1>2. PICK c : c = Request("newRow", g, form[g].h, {}, form[g].refs)
    OBVIOUS
<1>3. /\ form[g].h \in HostIds /\ form[g].refs \in SUBSET ROWS
      /\ form[g].refs \subseteq born /\ form[g].h \in born \cup {NoHost}
      /\ g = "edit" => form[g].h \in HOSTS
    BY <1>1 DEF InventoryInv, InventoryTyped, Shape, HostDialogs, Born, BornForm, Edits
<1>4. Made(c, "newRow", g, form[g].h, {}, form[g].refs, {}, FALSE)
    <2>1. "newRow" \in Asks /\ g \in Bys /\ {} \in SUBSET ROWS
        BY Terms
    <2>2. form[g].h \in HostIds /\ form[g].refs \in SUBSET ROWS
        BY <1>3
    <2> QED BY <1>2, <2>1, <2>2, RequestMade
<1>5. Askable(c)
    BY <1>1, <1>3, <1>4, MadeAskable DEF Made, Forms
<1>6. form' \in [Forms -> HostDialogs] /\ \A f \in Forms : FormSame(f)
    BY FormUnchanged DEF PickerCreates
<1>7. c.op = "newRow" /\ c.by = g
    BY <1>4 DEF Made
<1>8. ASSUME NEW f \in {"new", "edit"}, form[f].open, form[f].sure
      PROVE  FormFits(form[f], f, c)
    <2>1. f = g
        BY <1>1, <1>8, OneOnTop DEF InventoryInv, Forms
    <2> QED BY <2>1, <1>7 DEF FormFits
<1> QED BY <1>2, <1>5, <1>6, <1>7, <1>8, AskInv DEF PickerCreates

(* A host is submitted, and the form waits. *)
LEMMA SubmitHostStep == ASSUME InventoryInv, NEW g \in Forms, SubmitHost(g) PROVE InventoryInv'
<1>1. g \in {"new", "edit"} /\ form[g].open /\ OnTop(g)
    BY DEF SubmitHost, OnTop, Forms
<1>2. PICK b : b = Request("save", g, form[g].h, {}, form[g].refs)
    OBVIOUS
<1>3. form[g] \in HostDialogs /\ form \in [Forms -> HostDialogs]
    BY <1>1 DEF InventoryInv, InventoryTyped, Shape
<1>4. /\ form[g].h \in HostIds /\ form[g].refs \in SUBSET ROWS /\ form[g].toggled \in SUBSET ROWS
      /\ form[g].sure \in BOOLEAN /\ (~form[g].sure) \in BOOLEAN
      /\ form[g].refs \subseteq born /\ form[g].h \in born \cup {NoHost}
      /\ g = "edit" => form[g].h \in HOSTS
      /\ g = "new" => form[g].h = NoHost
    BY <1>1, <1>3 DEF InventoryInv, InventoryTyped, HostDialogs, Born, BornForm, Edits
<1>5. Made(b, "save", g, form[g].h, {}, form[g].refs, {}, FALSE)
    <2>1. "save" \in Asks /\ g \in Bys /\ {} \in SUBSET ROWS
        BY Terms
    <2> QED BY <1>2, <1>4, <2>1, RequestMade
<1>6. PICK c : c = [b EXCEPT !.toggled = form[g].toggled, !.hasty = ~form[g].sure]
    OBVIOUS
<1>7. Made(c, "save", g, form[g].h, {}, form[g].refs, form[g].toggled, ~form[g].sure)
    <2>1. form[g].toggled \in SUBSET ROWS /\ (~form[g].sure) \in BOOLEAN
        BY <1>4
    <2> QED BY <1>5, <1>6, <2>1, Marked
<1>8. Askable(c)
    BY <1>1, <1>4, <1>7, MadeAskable DEF Made, Forms
<1>9. Ask(c)
    BY <1>2, <1>6 DEF SubmitHost
<1>10. form'[g] = [form[g] EXCEPT !.busy = TRUE]
       /\ \A f \in Forms \ {g} : form'[f] = form[f]
    BY <1>3 DEF SubmitHost
<1>11. form' \in [Forms -> HostDialogs]
    <2>1. [form[g] EXCEPT !.busy = TRUE] \in HostDialogs
        BY <1>3 DEF HostDialogs
    <2>2. form' = [form EXCEPT ![g] = [form[g] EXCEPT !.busy = TRUE]]
        BY <1>3 DEF SubmitHost
    <2> QED BY <1>3, <2>1, <2>2
<1>12. ASSUME NEW f \in Forms PROVE FormSame(f)
    BY <1>10, <1>3 DEF FormSame, HostDialogs
<1>14. ASSUME NEW f \in {"new", "edit"}, form[f].open, form[f].sure
       PROVE  FormFits(form[f], f, c)
    <2>1. f = g
        BY <1>1, <1>14, OneOnTop DEF InventoryInv, Forms
    <2> QED BY <2>1, <1>7 DEF FormFits, Made, Differ
<1>15. ~c.hasty => RequestFits(c)
    <2> SUFFICES ASSUME ~c.hasty PROVE RequestFits(c)
        OBVIOUS
    <2>1. form[g].sure
        BY <1>4, <1>7 DEF Made
    <2>2. /\ g = "new" => form[g].refs \subseteq form[g].toggled
          /\ g = "edit" /\ form[g].h \in db.hosts =>
                Differ(form[g].refs, db.refs[form[g].h]) \cap db.rows \subseteq form[g].toggled
        BY <1>1, <2>1 DEF InventoryInv, Intent, FormTrue
    <2>3. NoHost \notin HOSTS /\ db.hosts \subseteq HOSTS
        BY InventoryAssumption DEF InventoryInv, InventoryTyped, Shape, Tables
    <2> QED BY <1>1, <1>4, <1>7, <2>2, <2>3 DEF RequestFits, Made
<1>16. c.op = "save"
    BY <1>7 DEF Made
<1> QED BY <1>8, <1>9, <1>11, <1>12, <1>14, <1>15, <1>16, AskInv DEF SubmitHost

(* A row is submitted from its own editor. *)
LEMMA SubmitRowStep == InventoryInv /\ SubmitRow => InventoryInv'
<1> SUFFICES ASSUME InventoryInv, SubmitRow PROVE InventoryInv'
    OBVIOUS
<1>2. form["row"] \in HostDialogs /\ form \in [Forms -> HostDialogs] /\ "row" \in Forms
    BY DEF InventoryInv, InventoryTyped, Shape, Forms
<1>3. PICK c : c = Request("newRow", "row", NoHost, {}, {})
    OBVIOUS
<1>4. Made(c, "newRow", "row", NoHost, {}, {}, {}, FALSE)
    <2>1. "newRow" \in Asks /\ "row" \in Bys /\ NoHost \in HostIds /\ {} \in SUBSET ROWS
        BY Terms DEF Forms
    <2> QED BY <1>3, <2>1, RequestMade
<1>5. Askable(c)
    BY <1>4, MadeAskable DEF Made, Forms
<1>6. form'["row"] = [form["row"] EXCEPT !.busy = TRUE]
      /\ \A f \in Forms \ {"row"} : form'[f] = form[f]
    BY <1>2 DEF SubmitRow
<1>7. form' \in [Forms -> HostDialogs]
    <2>1. [form["row"] EXCEPT !.busy = TRUE] \in HostDialogs
        BY <1>2 DEF HostDialogs
    <2>2. form' = [form EXCEPT !["row"] = [form["row"] EXCEPT !.busy = TRUE]]
        BY <1>2 DEF SubmitRow
    <2> QED BY <1>2, <2>1, <2>2
<1>8. ASSUME NEW f \in Forms PROVE FormSame(f)
    BY <1>6, <1>2 DEF FormSame, HostDialogs
<1>10. \A f \in {"new", "edit"} : ~(form[f].open /\ form[f].sure)
    BY <1>2, OneOnTop DEF InventoryInv, SubmitRow
<1>11. c.op = "newRow"
    BY <1>4 DEF Made
<1>12. Ask(c) /\ UNCHANGED <<kind, db, seen, born, drawn, dubious>>
    BY <1>3 DEF SubmitRow
<1> QED BY <1>5, <1>7, <1>8, <1>10, <1>11, <1>12, AskInv

(* A host is to be deleted. *)
LEMMA DeleteHostStep == InventoryInv /\ DeleteHost => InventoryInv'
<1> SUFFICES ASSUME InventoryInv, DeleteHost PROVE InventoryInv'
    OBVIOUS
<1>1. PICK h \in seen.hosts : Ask(Request("delHost", "none", h, {}, {}))
    BY DEF DeleteHost
<1>2. h \in HOSTS /\ h \in born
    BY DEF InventoryInv, InventoryTyped, Shape, Tables, Born, BornTable
<1>3. PICK c : c = Request("delHost", "none", h, {}, {})
    OBVIOUS
<1>4. Made(c, "delHost", "none", h, {}, {}, {}, FALSE)
    <2>1. "delHost" \in Asks /\ "none" \in Bys /\ h \in HostIds /\ {} \in SUBSET ROWS
        BY <1>2, Terms
    <2> QED BY <1>3, <2>1, RequestMade
<1>5. Askable(c)
    BY <1>2, <1>4, MadeAskable DEF Made, Forms
<1>6. form' \in [Forms -> HostDialogs] /\ \A f \in Forms : FormSame(f)
    BY FormUnchanged DEF DeleteHost
<1>7. \A f \in {"new", "edit"} : ~(form[f].open /\ form[f].sure)
    BY NoneOnTop DEF DeleteHost, InventoryInv
<1>8. c.op = "delHost"
    BY <1>4 DEF Made
<1> QED BY <1>1, <1>3, <1>5, <1>6, <1>7, <1>8, AskInv DEF DeleteHost

(* A row is to be deleted. *)
LEMMA DeleteRowStep == InventoryInv /\ DeleteRow => InventoryInv'
<1> SUFFICES ASSUME InventoryInv, DeleteRow PROVE InventoryInv'
    OBVIOUS
<1>1. PICK r : r \in SUBSET ROWS /\ Ask(Request("delRow", "none", NoHost, r, {}))
    <2>1. PICK x \in seen.rows : Ask(Request("delRow", "none", NoHost, {x}, {}))
        BY DEF DeleteRow
    <2>2. {x} \in SUBSET ROWS
        BY DEF InventoryInv, InventoryTyped, Shape, Tables
    <2> QED BY <2>1, <2>2
<1>3. PICK c : c = Request("delRow", "none", NoHost, r, {})
    OBVIOUS
<1>4. Made(c, "delRow", "none", NoHost, r, {}, {}, FALSE)
    <2>1. "delRow" \in Asks /\ "none" \in Bys /\ NoHost \in HostIds /\ {} \in SUBSET ROWS
        BY Terms
    <2> QED BY <1>1, <1>3, <2>1, RequestMade
<1>5. Askable(c)
    BY <1>4, MadeAskable DEF Made, Forms
<1>6. form' \in [Forms -> HostDialogs] /\ \A f \in Forms : FormSame(f)
    BY FormUnchanged DEF DeleteRow
<1>7. \A f \in {"new", "edit"} : ~(form[f].open /\ form[f].sure)
    BY NoneOnTop DEF DeleteRow, InventoryInv
<1>8. c.op = "delRow"
    BY <1>4 DEF Made
<1> QED BY <1>1, <1>3, <1>5, <1>6, <1>7, <1>8, AskInv DEF DeleteRow

(* A host is dragged to a group: what changes is its old group and its new one. *)
LEMMA MoveHostStep == InventoryInv /\ MoveHost => InventoryInv'
<1> SUFFICES ASSUME InventoryInv, MoveHost PROVE InventoryInv'
    OBVIOUS
<1>1. PICK h \in seen.hosts :
        \E to \in {{}} \cup {{r} : r \in seen.rows} :
          Ask([Request("move", "none", h, {}, to) EXCEPT !.toggled = seen.refs[h] \cup to,
                                                         !.hasty = "refs" \in dubious \/ Writing])
    BY DEF MoveHost
<1>2. PICK to \in {{}} \cup {{r} : r \in seen.rows} :
          Ask([Request("move", "none", h, {}, to) EXCEPT !.toggled = seen.refs[h] \cup to,
                                                         !.hasty = "refs" \in dubious \/ Writing])
    BY <1>1
<1>3. /\ h \in HOSTS /\ h \in born
      /\ to \subseteq seen.rows /\ to \in SUBSET ROWS /\ to \subseteq born
      /\ seen.refs[h] \in SUBSET ROWS /\ seen.refs[h] \cup to \in SUBSET ROWS
    BY DEF InventoryInv, InventoryTyped, Shape, Tables, Born, BornTable
<1>4. PICK b : b = Request("move", "none", h, {}, to)
    OBVIOUS
<1>5. Made(b, "move", "none", h, {}, to, {}, FALSE)
    <2>1. "move" \in Asks /\ "none" \in Bys /\ h \in HostIds /\ {} \in SUBSET ROWS
        BY <1>3, Terms
    <2> QED BY <1>3, <1>4, <2>1, RequestMade
<1>6. PICK t : t = seen.refs[h] \cup to
    OBVIOUS
<1>7. PICK y \in BOOLEAN : y = ("refs" \in dubious \/ Writing)
    BY DEF Writing
<1>8. PICK c : c = [b EXCEPT !.toggled = t, !.hasty = y]
    OBVIOUS
<1>9. Made(c, "move", "none", h, {}, to, t, y)
    <2>1. t \in SUBSET ROWS
        BY <1>3, <1>6
    <2> QED BY <1>5, <1>7, <1>8, <2>1, Marked
<1>10. Ask(c)
    BY <1>2, <1>4, <1>6, <1>7, <1>8
<1>11. Askable(c)
    BY <1>3, <1>9, MadeAskable DEF Made, Forms
<1>12. form' \in [Forms -> HostDialogs] /\ \A f \in Forms : FormSame(f)
    BY FormUnchanged DEF MoveHost
<1>13. \A f \in {"new", "edit"} : ~(form[f].open /\ form[f].sure)
    BY NoneOnTop DEF MoveHost, InventoryInv
<1>14. c.op = "move" /\ c.h = h /\ c.refs = to /\ c.toggled = t /\ c.hasty = y
    BY <1>9 DEF Made
<1>15. ~c.hasty => RequestFits(c)
    <2> SUFFICES ASSUME ~c.hasty PROVE RequestFits(c)
        OBVIOUS
    <2>1. "refs" \notin dubious /\ \A q \in REQS : ~Waiting(q)
        BY <1>7, <1>14 DEF Writing, Waiting
    <2>2. RefsSure /\ ~Rewritten(h)
        BY <2>1 DEF RefsSure, Rewritten, Sole
    <2>3. h \in db.hosts => seen.refs[h] \cap db.rows = db.refs[h]
        BY <1>1, <2>2 DEF InventoryInv, Stores, RefsFollow
    <2>4. h # NoHost
        BY <1>3, InventoryAssumption
    <2> QED BY <1>6, <1>14, <2>3, <2>4 DEF RequestFits, Differ
<1> QED BY <1>10, <1>11, <1>12, <1>13, <1>14, <1>15, AskInv DEF MoveHost

----------------------------------------------------------------------------
(* The dialogs *)

(* Requests that stay as they are still change only what was toggled. *)
LEMMA AskedKept ==
    ASSUME AskedTrue, UNCHANGED <<kind, db>>,
           \A x \in REQS : Alike(x) \/ req'[x].op \notin {"save", "links", "move"}
    PROVE  AskedTrue'
<1> SUFFICES ASSUME NEW x \in REQS, Promises(x)'
             PROVE  RequestFits(req[x])'
    BY DEF AskedTrue
<1>1. Alike(x)
    BY DEF Promises
<1>2. Promises(x)
    BY <1>1 DEF Alike, Promises, Sole, Waiting, Reading, Column
<1>3. RequestFits(req[x])
    BY <1>2 DEF AskedTrue
<1> QED BY <1>1, <1>3 DEF RequestFits, Alike, Promises

(* A closed dialog is a dialog, and holds nothing. *)
LEMMA ClosedTyped == Closed \in HostDialogs /\ ~Closed.open /\ ~Closed.sure
                     /\ Closed.h = NoHost /\ Closed.refs = {} /\ Closed.had = {}
BY DEF Closed, HostDialogs, HostIds

(* A host form opens: it is sure of its links if no command is under way and the
   store of a column is not in doubt, and late answers are no longer its own. *)
LEMMA OpenHostFormStep == ASSUME InventoryInv, NEW f, NEW h, OpenHostForm(f, h) PROVE InventoryInv'
<1>1. /\ f \in {"new", "edit"} /\ f \in Forms /\ form \in [Forms -> HostDialogs]
      /\ f = "new" => h = NoHost
      /\ f = "edit" => h \in seen.hosts /\ drawn
      /\ ~ModalOpen
    BY DEF OpenHostForm, Forms, InventoryInv, InventoryTyped, Shape
<1>2. /\ h \in HostIds /\ h \in born \cup {NoHost}
      /\ f = "edit" => h \in HOSTS
    BY <1>1 DEF InventoryInv, InventoryTyped, Shape, Tables, Born, BornTable, HostIds
<1>3. PICK had, links : had = Had(f, h) /\ links = IF Column THEN Had(f, h) ELSE form[f].refs
    OBVIOUS
<1>4. /\ links \in SUBSET ROWS /\ links \subseteq born
      /\ had \in SUBSET ROWS /\ had \subseteq born
    BY <1>1, <1>2, <1>3 DEF Had, InventoryInv, InventoryTyped, Shape, Tables, Born, BornTable,
                            BornForm, HostDialogs
<1>5. PICK sure \in BOOLEAN : sure = (Column /\ ~Writing /\ "refs" \notin dubious)
    BY DEF Column
<1>6. PICK x : x = [Closed EXCEPT !.open = TRUE, !.h = h, !.had = had, !.refs = links,
                                  !.sure = sure]
    OBVIOUS
<1>7. /\ x \in HostDialogs /\ x.open /\ x.h = h /\ x.refs = links /\ x.sure = sure
      /\ x.had = had
    BY <1>2, <1>4, <1>6, ClosedTyped DEF HostDialogs
<1>8. form' = [form EXCEPT ![f] = x]
    BY <1>3, <1>5, <1>6 DEF OpenHostForm
<1>9. form' \in [Forms -> HostDialogs] /\ form'[f] = x /\ \A g \in Forms \ {f} : form'[g] = form[g]
    BY <1>1, <1>7, <1>8
<1>10. PICK c : c = Request("rows", f, h, {}, {})
    OBVIOUS
<1>11. Made(c, "rows", f, h, {}, {}, {}, FALSE)
    <2>1. "rows" \in Asks /\ f \in Bys /\ h \in HostIds /\ {} \in SUBSET ROWS
        BY <1>1, <1>2, Terms
    <2> QED BY <1>10, <2>1, RequestMade
<1>12. Askable(c)
    BY <1>1, <1>2, <1>11, MadeAskable DEF Made
<1>13. PICK q \in Slot :
          req' = [y \in REQS |-> IF y = q THEN c
                                 ELSE [req[y] EXCEPT !.late = @ \/ req[y].by = f]]
    BY <1>10 DEF OpenHostForm
<1>14. q \in REQS /\ req[q].st = "free" /\ req'[q] = c
    BY <1>13 DEF Slot, OneId
<1>15. ASSUME NEW y \in REQS \ {q}
       PROVE  /\ Kept(y) /\ req'[y] \in Requests
              /\ req[y].by = f \/ req[y].late => req'[y].late
    <2>1. req[y] \in Requests
        BY DEF InventoryInv, InventoryTyped, Shape
    <2> DEFINE b == req[y].late \/ req[y].by = f
    <2>2. b \in BOOLEAN
        BY <2>1 DEF Requests
    <2>3. req'[y] = [req[y] EXCEPT !.late = b]
        BY <1>13
    <2>4. req[y].by = f \/ req[y].late => b
        OBVIOUS
    <2> HIDE DEF b
    <2> QED BY <2>1, <2>2, <2>3, <2>4 DEF Kept, Alike, Requests
<1>16. req' \in [REQS -> Requests]
    <2>1. \A y \in REQS : req'[y] \in Requests
        BY <1>12, <1>14, <1>15 DEF Askable
    <2>2. req' = [y \in REQS |-> req'[y]]
        BY <1>13
    <2> QED BY <2>1, <2>2
<1>17. UNCHANGED <<kind, db, seen, born, drawn, dubious>>
    BY DEF OpenHostForm
<1>18. Stages' /\ (\A y \in REQS : BornRequest(req[y])') /\ Stores'
    <2>1. \A y \in REQS : Kept(y) \/ (req[y].st = "free" /\ \E d : Askable(d) /\ req'[y] = d)
        BY <1>12, <1>14, <1>15
    <2> QED BY <1>17, <2>1, AskKeeps DEF InventoryInv
<1>19. Shape'
    BY <1>9, <1>16, <1>17 DEF InventoryInv, InventoryTyped, Shape
<1>20. Edits'
    <2>1. /\ \A g \in Forms : ~OnTop(g)
          /\ \A g \in {"new", "edit"} : ~(form[g].open /\ form[g].sure)
        BY <1>1, NoneOnTop DEF InventoryInv
    <2>2. /\ form'["edit"].open => form'["edit"].h \in HOSTS
          /\ form'["new"].h = NoHost
        BY <1>1, <1>2, <1>7, <1>9 DEF InventoryInv, InventoryTyped, Edits, Forms
    <2>3. ~(form'["new"].open /\ form'["row"].open)
        BY <1>1, <1>9, <2>1 DEF InventoryInv, InventoryTyped, Edits, OnTop, Forms
    <2>4. ASSUME NEW g \in {"new", "edit"}, form'[g].open, form'[g].sure
          PROVE  OnTop(g)'
        <3>1. g = f
            BY <1>9, <2>1, <2>4 DEF Forms
        <3> QED BY <1>1, <1>9, <1>17, <2>1, <2>4, <3>1 DEF OnTop, Forms
    <2> QED BY <2>2, <2>3, <2>4 DEF Edits
<1>21. Born'
    <2>1. \A g \in Forms : BornForm(form[g])'
        BY <1>2, <1>4, <1>7, <1>9, <1>17 DEF InventoryInv, InventoryTyped, Born, BornForm
    <2> QED BY <1>17, <1>18, <2>1 DEF InventoryInv, InventoryTyped, Born, BornTable
<1>23. FormTrue'
    <2> SUFFICES ASSUME NEW g \in {"new", "edit"}, form'[g].open, form'[g].sure
                 PROVE  /\ g = "new" => form'[g].refs \subseteq form'[g].toggled
                        /\ g = "edit" /\ form'[g].h \in db'.hosts =>
                              Differ(form'[g].refs, db'.refs[form'[g].h]) \cap db'.rows
                                  \subseteq form'[g].toggled
                        /\ \A y \in REQS : req'[y].st # "free" /\ ~Reading(y)' =>
                                              FormFits(form'[g], g, req'[y])
        BY DEF FormTrue, FormFits, Differ
    <2>1. g = f /\ form'[g] = x
        BY <1>1, <1>9, NoneOnTop DEF Forms, InventoryInv
    <2>2. Column /\ ~Writing /\ "refs" \notin dubious
        BY <1>5, <1>7, <2>1
    <2>3. ASSUME NEW y \in REQS, req'[y].st # "free", ~Reading(y)'
          PROVE  FALSE
        <3>1. y # q
            BY <1>11, <1>14, <2>3 DEF Made, Reading
        <3>2. Kept(y)
            BY <1>15, <3>1
        <3> QED BY <2>2, <2>3, <3>2 DEF Writing, Reading, Kept, Alike
    <2>4. CASE g = "edit" /\ h \in db.hosts
        <3>1. RefsSure /\ ~Rewritten(h)
            BY <2>2 DEF RefsSure, Rewritten, Sole, Waiting, Writing
        <3>2. seen.refs[h] \cap db.rows = db.refs[h]
            BY <1>1, <2>1, <2>4, <3>1 DEF InventoryInv, Stores, RefsFollow
        <3>3. links = seen.refs[h]
            BY <1>3, <2>1, <2>2, <2>4 DEF Had
        <3>4. Differ(links, db.refs[h]) \cap db.rows = {}
            BY <3>2, <3>3 DEF Differ
        <3> QED BY <1>7, <1>17, <2>1, <2>3, <2>4, <3>4 DEF Differ
    <2>5. CASE g = "new"
        <3>1. links = {}
            BY <1>3, <2>1, <2>2, <2>5 DEF Had
        <3> QED BY <1>7, <2>1, <2>3, <2>5, <3>1
    <2> QED BY <1>7, <1>17, <2>1, <2>3, <2>4, <2>5
<1>24. AskedTrue'
    <2>1. \A y \in REQS : Kept(y) \/ req'[y].op \notin {"save", "links", "move"}
        BY <1>11, <1>14, <1>15 DEF Made
    <2> QED BY <1>17, <2>1, AskedKept DEF InventoryInv, Intent, Kept
<1>25. OfThisOpening'
    <2> SUFFICES ASSUME NEW y \in REQS, NEW g \in {"new", "edit"}, req'[y].op = "rows",
                        req'[y].by = g, form'[g].open, ~req'[y].late
                 PROVE  req'[y].h = form'[g].h
        BY DEF OfThisOpening
    <2>1. CASE g = f
        <3>1. y = q
            BY <1>15, <2>1 DEF Kept, Alike
        <3> QED BY <1>7, <1>9, <1>11, <1>14, <2>1, <3>1 DEF Made
    <2>2. CASE g # f
        <3>1. form'[g] = form[g]
            BY <1>9, <2>2 DEF Forms
        <3>2. y # q
            BY <1>11, <1>14, <2>2 DEF Made
        <3>3. Kept(y) /\ ~req[y].late
            BY <1>15, <3>2
        <3> QED BY <3>1, <3>3 DEF Kept, Alike, InventoryInv, Intent, OfThisOpening
    <2> QED BY <2>1, <2>2
<1> QED BY <1>18, <1>19, <1>20, <1>21, <1>23, <1>24, <1>25
        DEF InventoryInv, InventoryTyped, Intent

(* A step of the dialogs alone keeps what the requests and the stores are compared by. *)
LEMMA KeptAll ==
    ASSUME InventoryInv, UNCHANGED <<kind, db, seen, born, dubious>>, \A x \in REQS : Kept(x)
    PROVE  Stages' /\ (\A x \in REQS : BornRequest(req[x])') /\ Stores' /\ AskedTrue'
<1>1. Stages' /\ (\A x \in REQS : BornRequest(req[x])') /\ Stores'
    BY AskKeeps DEF InventoryInv
<1>2. AskedTrue'
    BY AskedKept DEF InventoryInv, Intent, Kept
<1> QED BY <1>1, <1>2

(* A row's editor opens. *)
LEMMA OpenRowFormStep == InventoryInv /\ OpenRowForm => InventoryInv'
<1> SUFFICES ASSUME InventoryInv, OpenRowForm PROVE InventoryInv'
    OBVIOUS
<1>1. /\ form \in [Forms -> HostDialogs] /\ "row" \in Forms
      /\ \A g \in Forms : ~OnTop(g)
      /\ \A g \in {"new", "edit"} : ~(form[g].open /\ form[g].sure)
    BY NoneOnTop DEF OpenRowForm, InventoryInv, InventoryTyped, Shape, Forms
<1>2. PICK x : x = [Closed EXCEPT !.open = TRUE]
    OBVIOUS
<1>3. x \in HostDialogs /\ x.refs = {} /\ x.had = {} /\ x.h = NoHost
    BY <1>2, ClosedTyped DEF HostDialogs
<1>4. /\ form' \in [Forms -> HostDialogs] /\ form'["row"] = x
      /\ \A g \in Forms \ {"row"} : form'[g] = form[g]
    BY <1>1, <1>2, <1>3 DEF OpenRowForm
<1>5. ASSUME NEW y \in REQS
      PROVE  Kept(y) /\ req'[y] \in Requests /\ (req[y].late => req'[y].late)
    <2>1. req[y] \in Requests
        BY DEF InventoryInv, InventoryTyped, Shape
    <2> DEFINE b == req[y].late \/ req[y].by = "row"
    <2>2. b \in BOOLEAN
        BY <2>1 DEF Requests
    <2>3. req'[y] = [req[y] EXCEPT !.late = b]
        BY DEF OpenRowForm
    <2>4. req[y].late => b
        OBVIOUS
    <2> HIDE DEF b
    <2> QED BY <2>1, <2>2, <2>3, <2>4 DEF Kept, Alike, Requests
<1>6. UNCHANGED <<kind, db, seen, born, drawn, dubious>>
    BY DEF OpenRowForm
<1>7. Stages' /\ (\A y \in REQS : BornRequest(req[y])') /\ Stores' /\ AskedTrue'
    BY <1>5, <1>6, KeptAll
<1>8. Shape'
    <2>1. req' = [y \in REQS |-> req'[y]]
        BY DEF OpenRowForm
    <2>2. req' \in [REQS -> Requests]
        BY <1>5, <2>1
    <2> QED BY <1>4, <1>6, <2>2 DEF InventoryInv, InventoryTyped, Shape
<1>9. \A g \in {"new", "edit"} : form'[g] = form[g] /\ ~(form'[g].open /\ form'[g].sure)
    BY <1>1, <1>4 DEF Forms
<1>10. Edits'
    BY <1>1, <1>4, <1>9 DEF InventoryInv, InventoryTyped, Edits, OnTop, Forms
<1>11. Born'
    <2>1. \A g \in Forms : BornForm(form[g])'
        BY <1>3, <1>4, <1>6 DEF InventoryInv, InventoryTyped, Born, BornForm
    <2> QED BY <1>6, <1>7, <2>1 DEF InventoryInv, InventoryTyped, Born, BornTable
<1>13. FormTrue'
    BY <1>9 DEF FormTrue
<1>14. OfThisOpening'
    BY <1>5, <1>9 DEF InventoryInv, Intent, OfThisOpening, Kept, Alike
<1> QED BY <1>7, <1>8, <1>10, <1>11, <1>13, <1>14 DEF InventoryInv, InventoryTyped, Intent

(* What a dialog leaves behind when it closes. *)
LEMMA ShutTyped ==
    ASSUME NEW f \in Forms, form[f] \in HostDialogs
    PROVE  /\ Shut(f) \in HostDialogs /\ ~Shut(f).open /\ ~Shut(f).sure
           /\ Shut(f).h = NoHost /\ Shut(f).had = {} /\ Shut(f).refs \subseteq form[f].refs
<1> DEFINE links == IF Column THEN {} ELSE form[f].refs
<1>1. links \in SUBSET ROWS /\ links \subseteq form[f].refs
    BY DEF HostDialogs
<1>2. Shut(f) = [Closed EXCEPT !.refs = links]
    BY DEF Shut
<1> HIDE DEF links
<1> QED BY <1>1, <1>2, ClosedTyped DEF HostDialogs

(* A dialog is closed, and the requests and the tables stay. *)
LEMMA DismissStep == ASSUME InventoryInv, NEW f \in Forms, Dismiss_(f) PROVE InventoryInv'
<1>1. form \in [Forms -> HostDialogs]
    BY DEF InventoryInv, InventoryTyped, Shape
<1>2. PICK x : x = Shut(f)
    OBVIOUS
<1>3. x \in HostDialogs /\ ~x.open /\ x.h = NoHost /\ x.had = {} /\ x.refs \subseteq form[f].refs
    BY <1>1, <1>2, ShutTyped
<1>4. form' \in [Forms -> HostDialogs] /\ form'[f] = x /\ \A g \in Forms \ {f} : form'[g] = form[g]
    BY <1>1, <1>2, <1>3 DEF Dismiss_
<1>5. UNCHANGED <<kind, db, seen, born, drawn, dubious, req>> /\ \A y \in REQS : Kept(y)
    BY DEF Dismiss_, Kept, Alike
<1>6. Stages' /\ (\A y \in REQS : BornRequest(req[y])') /\ Stores' /\ AskedTrue'
    BY <1>5, KeptAll
<1>7. Shape'
    BY <1>4, <1>5 DEF InventoryInv, InventoryTyped, Shape
<1>8. \A g \in Forms : form'[g].open => form'[g] = form[g]
    BY <1>3, <1>4
<1>9. Edits'
    <2>1. form'["new"].h = NoHost
        BY <1>3, <1>4 DEF InventoryInv, InventoryTyped, Edits, Forms
    <2>2. ASSUME NEW g \in {"new", "edit"}, form'[g].open, form'[g].sure
          PROVE  OnTop(g)'
        <3>1. form'[g] = form[g] /\ OnTop(g) /\ OnTop(f)
            BY <1>8, <2>2 DEF InventoryInv, InventoryTyped, Edits, Forms, Dismiss_
        <3>2. g = f
            BY <3>1, OneOnTop DEF InventoryInv, Forms
        <3> QED BY <1>3, <1>4, <2>2, <3>2
    <2> QED BY <1>8, <2>1, <2>2 DEF InventoryInv, InventoryTyped, Edits, Forms
<1>10. Born'
    <2>1. \A g \in Forms : BornForm(form[g])'
        BY <1>3, <1>4, <1>5 DEF InventoryInv, InventoryTyped, Born, BornForm
    <2> QED BY <1>5, <1>6, <2>1 DEF InventoryInv, InventoryTyped, Born, BornTable
<1>12. \A g \in {"new", "edit"} : form'[g].open => form'[g] = form[g]
    BY <1>8 DEF Forms
<1>13. FormTrue'
    <2> SUFFICES ASSUME NEW g \in {"new", "edit"}, form'[g].open, form'[g].sure
                 PROVE  /\ g = "new" => form'[g].refs \subseteq form'[g].toggled
                        /\ g = "edit" /\ form'[g].h \in db'.hosts =>
                              Differ(form'[g].refs, db'.refs[form'[g].h]) \cap db'.rows
                                  \subseteq form'[g].toggled
                        /\ \A y \in REQS : req'[y].st # "free" /\ ~Reading(y)' =>
                                              FormFits(form'[g], g, req'[y])
        BY DEF FormTrue, FormFits, Differ
    <2>1. form'[g] = form[g]
        BY <1>12
    <2> QED BY <1>5, <2>1 DEF InventoryInv, Intent, FormTrue, Reading
<1>14. OfThisOpening'
    BY <1>5, <1>12 DEF InventoryInv, Intent, OfThisOpening
<1> QED BY <1>6, <1>7, <1>9, <1>10, <1>13, <1>14 DEF InventoryInv, InventoryTyped, Intent

(* A row is toggled: what the form changes grows by what was toggled. *)
LEMMA ToggleStep ==
    ASSUME InventoryInv, NEW f \in Forms, NEW r \in ROWS, Toggle(f, r)
    PROVE  InventoryInv'
<1>1. form \in [Forms -> HostDialogs] /\ form[f].open /\ f \in {"new", "edit"} /\ r \in born
      /\ form[f] \in HostDialogs
    BY DEF Toggle, OnTop, InventoryInv, InventoryTyped, Shape, Forms, Born, BornTable
<1>2. PICK links : links = IF r \in form[f].refs THEN form[f].refs \ {r}
                           ELSE IF Column THEN {r} ELSE form[f].refs \cup {r}
    OBVIOUS
<1>3. PICK t : t = form[f].toggled \cup {r} \cup (IF Column THEN form[f].refs ELSE {})
    OBVIOUS
<1>4. /\ links \in SUBSET ROWS /\ t \in SUBSET ROWS /\ links \subseteq form[f].refs \cup {r}
      /\ Differ(links, form[f].refs) \subseteq t /\ form[f].toggled \subseteq t
    BY <1>1, <1>2, <1>3 DEF Differ, HostDialogs
<1>5. PICK x : x = [form[f] EXCEPT !.refs = links, !.toggled = t]
    OBVIOUS
<1>6. /\ x \in HostDialogs /\ x.refs = links /\ x.toggled = t /\ x.open = form[f].open
      /\ x.h = form[f].h /\ x.sure = form[f].sure /\ x.had = form[f].had
    BY <1>1, <1>4, <1>5 DEF HostDialogs
<1>7. form' \in [Forms -> HostDialogs] /\ form'[f] = x /\ \A g \in Forms \ {f} : form'[g] = form[g]
    <2>1. form' = [form EXCEPT ![f] = x]
        BY <1>1, <1>2, <1>3, <1>5 DEF Toggle
    <2> QED BY <1>1, <1>6, <2>1
<1>8. UNCHANGED <<kind, db, seen, born, drawn, dubious, req>> /\ \A y \in REQS : Kept(y)
    BY DEF Toggle, Kept, Alike
<1>9. Stages' /\ (\A y \in REQS : BornRequest(req[y])') /\ Stores' /\ AskedTrue'
    BY <1>8, KeptAll
<1>10. Shape'
    BY <1>7, <1>8 DEF InventoryInv, InventoryTyped, Shape
<1>11. \A g \in Forms : /\ form'[g].open = form[g].open /\ form'[g].h = form[g].h
                         /\ form'[g].sure = form[g].sure
    BY <1>6, <1>7
<1>12. Edits'
    BY <1>8, <1>11 DEF OnTop, InventoryInv, InventoryTyped, Edits, Forms
<1>13. Born'
    <2>1. \A g \in Forms : BornForm(form[g])'
        BY <1>1, <1>4, <1>6, <1>7, <1>8 DEF InventoryInv, InventoryTyped, Born, BornForm
    <2> QED BY <1>8, <1>9, <2>1 DEF InventoryInv, InventoryTyped, Born, BornTable
<1>15. FormTrue'
    <2> SUFFICES ASSUME NEW g \in {"new", "edit"}, form'[g].open, form'[g].sure
                 PROVE  /\ g = "new" => form'[g].refs \subseteq form'[g].toggled
                        /\ g = "edit" /\ form'[g].h \in db'.hosts =>
                              Differ(form'[g].refs, db'.refs[form'[g].h]) \cap db'.rows
                                  \subseteq form'[g].toggled
                        /\ \A y \in REQS : req'[y].st # "free" /\ ~Reading(y)' =>
                                              FormFits(form'[g], g, req'[y])
        BY DEF FormTrue, FormFits, Differ
    <2>1. g = f /\ form'[g] = x /\ form[f].sure
        BY <1>1, <1>6, <1>7, <1>11, OneOnTop DEF InventoryInv, Toggle, Forms
    <2>2. /\ f = "new" => form[f].refs \subseteq form[f].toggled
          /\ f = "edit" /\ form[f].h \in db.hosts =>
                Differ(form[f].refs, db.refs[form[f].h]) \cap db.rows \subseteq form[f].toggled
          /\ \A y \in REQS : req[y].st # "free" /\ ~Reading(y) => FormFits(form[f], f, req[y])
        BY <1>1, <2>1 DEF InventoryInv, Intent, FormTrue
    <2>3. ASSUME NEW y \in REQS, req'[y].st # "free", ~Reading(y)'
          PROVE  FormFits(x, f, req'[y])
        <3>1. FormFits(form[f], f, req[y])
            BY <1>8, <2>2, <2>3 DEF Reading
        <3> QED BY <1>4, <1>6, <1>8, <3>1 DEF FormFits, Differ
    <2> QED BY <1>4, <1>6, <1>8, <2>1, <2>2, <2>3 DEF Differ
<1>16. OfThisOpening'
    BY <1>8, <1>11 DEF InventoryInv, Intent, OfThisOpening, Forms
<1> QED BY <1>9, <1>10, <1>12, <1>13, <1>15, <1>16 DEF InventoryInv, InventoryTyped, Intent

----------------------------------------------------------------------------
(* Commands *)

(* What a command of another request makes of this one. *)
Passed(x) ==
    /\ req'[x].st = req[x].st /\ req'[x].op = req[x].op /\ req'[x].by = req[x].by
    /\ req'[x].h = req[x].h /\ req'[x].r = req[x].r /\ req'[x].refs = req[x].refs
    /\ req'[x].parts = req[x].parts /\ req'[x].got = req[x].got
    /\ req'[x].late = req[x].late /\ req'[x].toggled = req[x].toggled
    /\ req[x].st = "asked" => req'[x].hasty
    /\ Waiting(x) => req'[x].stale
    /\ Reading(x) /\ ~req'[x].stale => ~req[x].stale /\ req[x].parts = AllParts(req[x].op)

(* The other requests, when one is executed. *)
LEMMA ExecutedOthers ==
    ASSUME InventoryInv, NEW q, NEW tables, NEW done, Executed(q, tables, done),
           NEW x \in REQS, x # q
    PROVE  Passed(x) /\ req'[x] \in Requests
<1> DEFINE a == req[x].hasty \/ req[x].st = "asked"
           b == req[x].stale \/ req[x].st = "ok"
                   \/ (Reading(x) /\ req[x].parts \notin {HostParts, RowParts})
<1>1. req[x] \in Requests /\ StageOf(req[x])
    BY DEF InventoryInv, InventoryTyped, Shape, Stages
<1>2. req[x].hasty \in BOOLEAN /\ req[x].stale \in BOOLEAN
    BY <1>1 DEF Requests
<1>3. req'[x] = [req[x] EXCEPT !.hasty = a, !.stale = b]
    BY <1>2 DEF Executed
<1>4. a \in BOOLEAN /\ b \in BOOLEAN
    BY <1>2 DEF Reading
<1>5. Waiting(x) => b
    BY DEF Waiting
<1>6. Reading(x) /\ ~b => ~req[x].stale /\ req[x].parts = AllParts(req[x].op)
    <2> SUFFICES ASSUME Reading(x), ~b
                 PROVE  req[x].parts = AllParts(req[x].op)
        OBVIOUS
    <2>1. req[x].parts \in {HostParts, RowParts} /\ req[x].parts \subseteq AllParts(req[x].op)
        BY <1>1 DEF StageOf, Reading, Reads
    <2>2. ~(HostParts \subseteq RowParts) /\ ~(RowParts \subseteq HostParts)
        <3>1. {"rows"} \notin HostParts /\ {"rows"} \in RowParts
            BY DEF HostParts, RowParts
        <3>2. (Column => {"hosts", "refs"} \in HostParts /\ {"hosts", "refs"} \notin RowParts)
              /\ (~Column => {"hosts"} \in HostParts /\ {"hosts"} \notin RowParts)
            BY DEF HostParts, RowParts
        <3> QED BY <3>1, <3>2
    <2> QED BY <2>1, <2>2 DEF AllParts
<1>7. req[x].st = "asked" => a
    OBVIOUS
<1> HIDE DEF a, b
<1> QED BY <1>1, <1>3, <1>4, <1>5, <1>6, <1>7 DEF Passed, Requests

(* What follows for the stores, whatever the command did. *)
LEMMA ExecutedLeaves ==
    ASSUME InventoryInv, NEW q \in REQS, req[q].st = "asked", ~Reading(q),
           \A x \in REQS \ {q} : Passed(x),
           req'[q].st = "ok", req'[q].op = req[q].op, UNCHANGED <<kind, seen, dubious, form>>
    PROVE  /\ \A x \in REQS : Sole(x)' => x = q
           /\ Waiting(q)'
           /\ \A x \in REQS : Promises(x)' => x = q
           /\ OneSole' /\ ReadTrue' /\ OfThisOpening'
           /\ HostsSure' => \A h \in HOSTS : h \in db.hosts <=> h \in seen.hosts
           /\ RowsSure' => \A r \in ROWS : r \in db.rows <=> r \in seen.rows
           /\ RefsSure' => \A h \in db.hosts : \/ Column /\ h \notin seen.hosts
                                               \/ seen.refs[h] \cap db.rows = db.refs[h]
           /\ RefsSure' /\ kind = "group" => \A h \in db.hosts :
                 \/ h \notin seen.hosts \/ seen.refs[h] \subseteq db.rows
                 \/ \E x \in REQS \ {q} : Waiting(x)' /\ req'[x].op = "delRow"
<1>1. Waiting(q)' /\ ~Reading(q)' /\ ~Waiting(q)
    BY DEF Waiting, Reading
<1>2. ASSUME NEW x \in REQS, x # q
      PROVE  /\ Passed(x) /\ ~Sole(x)' /\ ~Promises(x)'
             /\ Waiting(x) => Waiting(x)' /\ req'[x].stale /\ req'[x].op = req[x].op
                                /\ (SetsRefs(x) => SetsRefs(x)')
    <2>1. Passed(x)
        BY <1>2
    <2>2. Waiting(x)' <=> Waiting(x)
        BY <2>1 DEF Passed, Waiting, Reading
    <2>3. ~Sole(x)'
        BY <2>1, <2>2 DEF Passed, Sole
    <2>4. ~Promises(x)'
        BY <2>1, <2>3 DEF Passed, Promises
    <2> QED BY <2>1, <2>2, <2>3, <2>4 DEF Passed, SetsRefs, Column
<1>3. OneSole'
    BY <1>2 DEF OneSole
<1>4. ReadTrue'
    <2> SUFFICES ASSUME NEW x \in REQS, Reading(x)', ~req'[x].stale,
                        NEW cell \in (UNION AllParts(req[x].op)') \ (UNION req'[x].parts)
                 PROVE  req'[x].got[cell] = db'[cell]
        BY DEF ReadTrue
    <2>1. x # q /\ Passed(x) /\ Reading(x)
        BY <1>1, <1>2 DEF Passed, Reading
    <2>2. /\ req[x].parts = AllParts(req[x].op)
          /\ req'[x].parts = req[x].parts /\ req'[x].op = req[x].op
        BY <2>1 DEF Passed
    <2>3. AllParts(req[x].op)' = AllParts(req[x].op)
        BY <2>2 DEF AllParts, HostParts, RowParts, Column
    <2> QED BY <2>2, <2>3
<1>5. OfThisOpening'
    <2> SUFFICES ASSUME NEW y \in REQS, NEW g \in {"new", "edit"}, req'[y].op = "rows",
                        req'[y].by = g, form'[g].open, ~req'[y].late
                 PROVE  req'[y].h = form'[g].h
        BY DEF OfThisOpening
    <2>1. y # q
        BY <1>1 DEF Reading
    <2> QED BY <1>2, <2>1 DEF Passed, InventoryInv, Intent, OfThisOpening
<1>6. ASSUME HostsSure'
      PROVE  \A h \in HOSTS : h \in db.hosts <=> h \in seen.hosts
    <2>1. \A x \in REQS : Waiting(x) => req[x].op \notin {"save", "delHost"}
        BY <1>1, <1>2, <1>6 DEF HostsSure
    <2>2. HostsSure /\ \A x \in REQS : Sole(x) => req[x].op \notin {"save", "delHost"}
        BY <1>6, <2>1 DEF HostsSure, Sole
    <2> QED BY <2>2 DEF InventoryInv, Stores, HostsFollow
<1>7. ASSUME RowsSure'
      PROVE  \A r \in ROWS : r \in db.rows <=> r \in seen.rows
    <2>1. \A x \in REQS : Waiting(x) => req[x].op \notin {"newRow", "delRow"}
        BY <1>1, <1>2, <1>7 DEF RowsSure
    <2>2. RowsSure /\ \A x \in REQS : Sole(x) => req[x].op \notin {"newRow", "delRow"}
        BY <1>7, <2>1 DEF RowsSure, Sole
    <2> QED BY <2>2 DEF InventoryInv, Stores, RowsFollow
<1>8. ASSUME RefsSure'
      PROVE  RefsSure /\ \A h : ~Rewritten(h)
    <2>1. \A x \in REQS : Waiting(x) => ~SetsRefs(x)
        BY <1>1, <1>2, <1>8 DEF RefsSure
    <2> QED BY <1>8, <2>1 DEF RefsSure, Rewritten, Sole
<1>9. ASSUME RefsSure', kind = "group", \A x \in REQS \ {q} : Waiting(x)' => req'[x].op # "delRow"
      PROVE  \A h \in db.hosts : h \notin seen.hosts \/ seen.refs[h] \subseteq db.rows
    <2>1. \A x \in REQS : Waiting(x) => req[x].op # "delRow"
        BY <1>1, <1>2, <1>9
    <2> QED BY <1>8, <1>9, <2>1 DEF InventoryInv, Stores, GroupsShown
<1>10. RefsSure' => \A h \in db.hosts : \/ Column /\ h \notin seen.hosts
                                        \/ seen.refs[h] \cap db.rows = db.refs[h]
    BY <1>8 DEF InventoryInv, Stores, RefsFollow
<1>11. RefsSure' /\ kind = "group" => \A h \in db.hosts :
                 \/ h \notin seen.hosts \/ seen.refs[h] \subseteq db.rows
                 \/ \E x \in REQS \ {q} : Waiting(x)' /\ req'[x].op = "delRow"
    BY <1>9
<1> QED BY <1>1, <1>2, <1>3, <1>4, <1>5, <1>6, <1>7, <1>10, <1>11

(* A command was executed, and its request knows its host and what it made. *)
CommandDone(q) ==
    /\ \A x \in REQS \ {q} : Passed(x)
    /\ req' \in [REQS -> Requests]
    /\ req[q].st = "asked" /\ ~Reading(q)
    /\ req'[q].st = "ok" /\ req'[q].op = req[q].op /\ req'[q].by = req[q].by
    /\ req'[q].refs = req[q].refs /\ req'[q].parts = req[q].parts /\ req'[q].got = req[q].got
    /\ req'[q].stale = req[q].stale /\ req'[q].late = req[q].late
    /\ req'[q].toggled = req[q].toggled /\ req'[q].hasty = req[q].hasty
    /\ UNCHANGED <<kind, seen, form, drawn, dubious>>

(* The executed request itself. *)
LEMMA ExecutedDone ==
    ASSUME InventoryInv, NEW q, NEW tables, NEW done, NEW h, NEW r, Executed(q, tables, done),
           done = [req[q] EXCEPT !.h = h, !.r = r], q \in REQS,
           req[q].st = "asked", req[q].op \notin Reads,
           h \in HostIds, r \in SUBSET (ROWS \cup {"created"})
    PROVE  CommandDone(q) /\ req'[q].h = h /\ req'[q].r = r /\ db' = tables
<1>1. req[q] \in Requests
    BY DEF InventoryInv, InventoryTyped, Shape
<1>2. req'[q] = [done EXCEPT !.st = "ok"]
    BY DEF Executed
<1>3. \A x \in REQS \ {q} : Passed(x) /\ req'[x] \in Requests
    BY ExecutedOthers
<1>4. /\ req'[q] \in Requests /\ req'[q].h = h /\ req'[q].r = r
      /\ req'[q].st = "ok" /\ req'[q].op = req[q].op /\ req'[q].by = req[q].by
      /\ req'[q].refs = req[q].refs /\ req'[q].parts = req[q].parts /\ req'[q].got = req[q].got
      /\ req'[q].stale = req[q].stale /\ req'[q].late = req[q].late
      /\ req'[q].toggled = req[q].toggled /\ req'[q].hasty = req[q].hasty
    BY <1>1, <1>2 DEF Requests
<1>5. req' \in [REQS -> Requests]
    <2>1. \A x \in REQS : req'[x] \in Requests
        BY <1>3, <1>4
    <2>2. req' = [x \in REQS |-> req'[x]]
        BY DEF Executed
    <2> QED BY <2>1, <2>2
<1>6. ~Reading(q)
    BY DEF Reading, Reads
<1>7. UNCHANGED <<kind, seen, form, drawn, dubious>> /\ db' = tables
    BY DEF Executed
<1> QED BY <1>3, <1>4, <1>5, <1>6, <1>7 DEF CommandDone

(* The parts of the invariant that do not depend on what the command did. *)
LEMMA CommandKeeps ==
    ASSUME InventoryInv, NEW q \in REQS, CommandDone(q),
           db' \in Tables, born' \in SUBSET (HOSTS \cup ROWS), born \subseteq born',
           StageOf(req[q])', BornRequest(req[q])', BornTable(db)'
    PROVE  /\ InventoryTyped' /\ OneSole' /\ ReadTrue' /\ OfThisOpening'
           /\ \A x \in REQS : Sole(x)' => x = q
           /\ \A x \in REQS : Promises(x)' => x = q
           /\ Waiting(q)'
<1>1. Shape'
    BY DEF InventoryInv, InventoryTyped, Shape, CommandDone
<1>2. Stages'
    <2>1. ASSUME NEW x \in REQS, x # q PROVE StageOf(req[x])'
        <3>1. StageOf(req[x]) /\ Passed(x)
            BY <2>1 DEF InventoryInv, InventoryTyped, Stages, CommandDone
        <3> QED BY <3>1 DEF StageOf, Passed, AllParts, HostParts, RowParts, Column, CommandDone
    <2> QED BY <2>1 DEF Stages
<1>3. Edits'
    BY DEF InventoryInv, InventoryTyped, Edits, OnTop, CommandDone
<1>4. Born'
    <2>1. BornTable(seen)'
        BY DEF InventoryInv, InventoryTyped, Born, BornTable, CommandDone
    <2>2. ASSUME NEW x \in REQS, x # q PROVE BornRequest(req[x])'
        <3>1. BornRequest(req[x]) /\ Passed(x)
            BY <2>2 DEF InventoryInv, InventoryTyped, Born, CommandDone
        <3> QED BY <3>1 DEF BornRequest, BornTable, Passed
    <2>3. \A f \in Forms : BornForm(form[f])'
        BY DEF InventoryInv, InventoryTyped, Born, BornForm, CommandDone
    <2> QED BY <2>1, <2>2, <2>3 DEF Born
<1>6. /\ \A x \in REQS : Sole(x)' => x = q
      /\ \A x \in REQS : Promises(x)' => x = q
      /\ OneSole' /\ ReadTrue' /\ OfThisOpening' /\ Waiting(q)'
    BY ExecutedLeaves DEF CommandDone
<1> QED BY <1>1, <1>2, <1>3, <1>4, <1>6 DEF InventoryTyped

(* What the stores hold is what the database held before the last command. *)
LEMMA CommandFollows ==
    ASSUME InventoryInv, NEW q \in REQS, CommandDone(q)
    PROVE  /\ HostsSure' => \A h \in HOSTS : h \in db.hosts <=> h \in seen.hosts
           /\ RowsSure' => \A r \in ROWS : r \in db.rows <=> r \in seen.rows
           /\ RefsSure' => \A h \in db.hosts : \/ Column /\ h \notin seen.hosts
                                               \/ seen.refs[h] \cap db.rows = db.refs[h]
           /\ RefsSure' /\ kind = "group" => \A h \in db.hosts :
                 \/ h \notin seen.hosts \/ seen.refs[h] \subseteq db.rows
                 \/ \E x \in REQS \ {q} : Waiting(x)' /\ req'[x].op = "delRow"
BY ExecutedLeaves DEF CommandDone

(* A form that is sure has only commands of its own under way. *)
LEMMA CommandFits ==
    ASSUME InventoryInv, NEW q \in REQS, CommandDone(q), req[q].by = "edit" => req'[q].h = req[q].h
    PROVE  \A f \in {"new", "edit"} : form[f].open /\ form[f].sure =>
              /\ FormFits(form[f], f, req[q])
              /\ f = "new" => form[f].refs \subseteq form[f].toggled
              /\ f = "edit" /\ form[f].h \in db.hosts =>
                    Differ(form[f].refs, db.refs[form[f].h]) \cap db.rows \subseteq form[f].toggled
              /\ \A x \in REQS : req'[x].st # "free" /\ ~Reading(x)'
                                     => FormFits(form[f], f, req'[x])
<1> SUFFICES ASSUME NEW f \in {"new", "edit"}, form[f].open, form[f].sure
             PROVE  /\ FormFits(form[f], f, req[q])
                    /\ f = "new" => form[f].refs \subseteq form[f].toggled
                    /\ f = "edit" /\ form[f].h \in db.hosts =>
                          Differ(form[f].refs, db.refs[form[f].h]) \cap db.rows
                              \subseteq form[f].toggled
                    /\ \A x \in REQS : req'[x].st # "free" /\ ~Reading(x)'
                                           => FormFits(form[f], f, req'[x])
    OBVIOUS
<1>1. /\ f = "new" => form[f].refs \subseteq form[f].toggled
      /\ f = "edit" /\ form[f].h \in db.hosts =>
            Differ(form[f].refs, db.refs[form[f].h]) \cap db.rows \subseteq form[f].toggled
      /\ \A x \in REQS : req[x].st # "free" /\ ~Reading(x) => FormFits(form[f], f, req[x])
    BY DEF InventoryInv, Intent, FormTrue
<1>2. FormFits(form[f], f, req[q])
    BY <1>1 DEF CommandDone
<1>3. ASSUME NEW x \in REQS, req'[x].st # "free", ~Reading(x)'
      PROVE  FormFits(form[f], f, req'[x])
    <2>1. CASE x = q
        BY <1>2, <2>1 DEF FormFits, CommandDone
    <2>2. CASE x # q
        <3>1. Passed(x)
            BY <2>2 DEF CommandDone
        <3>2. FormFits(form[f], f, req[x])
            BY <1>1, <1>3, <3>1 DEF Passed, Reading
        <3> QED BY <3>1, <3>2 DEF FormFits, Passed
    <2> QED BY <2>1, <2>2
<1> QED BY <1>1, <1>2, <1>3

(* OnlyToggledChange, of one step. *)
OnlyToggled ==
    \A h \in db.hosts \cap db'.hosts : \A r \in db.rows \cap db'.rows :
       (r \in db.refs[h]) # (r \in db'.refs[h]) =>
          \E q \in REQS : /\ req[q].st = "asked" /\ req'[q].st = "ok"
                          /\ req[q].hasty \/ r \in req[q].toggled

(* A row is deleted, and with it every reference to it. *)
LEMMA ExecDelRowStep ==
    ASSUME InventoryInv, NEW q \in REQS, ExecDelRow(q)
    PROVE  InventoryInv' /\ OnlyToggled
<1>1. /\ req[q] \in Requests /\ StageOf(req[q]) /\ BornRequest(req[q]) /\ db \in Tables
      /\ req[q].st = "asked" /\ req[q].op = "delRow" /\ req[q].op \notin Reads
    BY DEF InventoryInv, InventoryTyped, Shape, Stages, Born, ExecDelRow, Reads
<1>2. PICK rs : rs = req[q].r
    OBVIOUS
<1>3. PICK tables : tables = [db EXCEPT !.rows = @ \ rs, !.refs = [h \in HOSTS |-> @[h] \ rs]]
    OBVIOUS
<1>4. /\ tables \in Tables /\ tables.hosts = db.hosts /\ tables.rows = db.rows \ rs
      /\ \A h \in HOSTS : tables.refs[h] = db.refs[h] \ rs
    BY <1>1, <1>3 DEF Tables
<1>5. CommandDone(q) /\ req'[q].h = req[q].h /\ req'[q].r = rs /\ db' = tables
    <2>1. PICK h : h = req[q].h
        OBVIOUS
    <2>2. h \in HostIds /\ rs \in SUBSET (ROWS \cup {"created"})
        BY <1>1, <1>2, <2>1 DEF Requests
    <2>3. PICK done : done = req[q]
        OBVIOUS
    <2>4. done = [req[q] EXCEPT !.h = h, !.r = rs]
        BY <1>1, <1>2, <2>1, <2>3 DEF Requests
    <2>5. Executed(q, tables, done)
        BY <1>2, <1>3, <2>3 DEF ExecDelRow, Executed
    <2> QED BY <1>1, <2>1, <2>2, <2>4, <2>5, ExecutedDone
<1>6. /\ UNCHANGED <<kind, seen, form, dubious>> /\ born' = born
      /\ req'[q].st = "ok" /\ req'[q].op = "delRow" /\ req'[q].by = req[q].by
      /\ req'[q].refs = req[q].refs /\ req'[q].parts = req[q].parts /\ req'[q].got = req[q].got
    BY <1>1, <1>5 DEF CommandDone, ExecDelRow
<1>7. StageOf(req[q])' /\ BornRequest(req[q])' /\ BornTable(db)'
    <2>1. StageOf(req[q])'
        BY <1>1, <1>5, <1>6 DEF StageOf, Reads
    <2>2. BornRequest(req[q])'
        BY <1>1, <1>5, <1>6 DEF BornRequest, BornTable
    <2>3. BornTable(db)'
        <3>1. BornTable(db)
            BY DEF InventoryInv, InventoryTyped, Born
        <3> QED BY <1>4, <1>5, <1>6, <3>1 DEF BornTable
    <2> QED BY <2>1, <2>2, <2>3
<1>8. /\ InventoryTyped' /\ OneSole' /\ ReadTrue' /\ OfThisOpening'
      /\ \A x \in REQS : Sole(x)' => x = q
      /\ \A x \in REQS : Promises(x)' => x = q
      /\ Waiting(q)'
    <2>1. db' \in Tables /\ born' \in SUBSET (HOSTS \cup ROWS) /\ born \subseteq born'
        BY <1>4, <1>5, <1>6 DEF InventoryInv, InventoryTyped, Shape
    <2> QED BY <1>5, <1>7, <2>1, CommandKeeps
<1>9. /\ HostsSure' => \A h \in HOSTS : h \in db.hosts <=> h \in seen.hosts
      /\ RowsSure' => \A r \in ROWS : r \in db.rows <=> r \in seen.rows
      /\ RefsSure' => \A h \in db.hosts : \/ Column /\ h \notin seen.hosts
                                          \/ seen.refs[h] \cap db.rows = db.refs[h]
    BY <1>5, CommandFollows
<1>10. ForeignKeys'
    BY <1>4, <1>5 DEF InventoryInv, Stores, ForeignKeys
<1>11. Held'
    BY <1>4, <1>5, <1>6, <1>8 DEF Held
<1>12. HostsFollow'
    BY <1>4, <1>5, <1>6, <1>8, <1>9 DEF HostsFollow
<1>13. RowsFollow'
    <2> SUFFICES ASSUME RowsSure'
                 PROVE  \A r \in ROWS : r \in db'.rows <=>
                           /\ \/ r \in seen'.rows
                              \/ \E x \in REQS :
                                    Sole(x)' /\ req'[x].op = "newRow" /\ r \in req'[x].r
                           /\ ~\E x \in REQS : Sole(x)' /\ req'[x].op = "delRow" /\ r \in req'[x].r
        BY DEF RowsFollow
    <2>1. Sole(q)'
        BY <1>6, <1>8 DEF RowsSure, Sole
    <2> QED BY <1>4, <1>5, <1>6, <1>8, <1>9, <2>1
<1>14. RefsFollow'
    <2>1. db.hosts \subseteq HOSTS
        BY <1>1 DEF Tables
    <2> QED BY <1>4, <1>5, <1>6, <1>9, <2>1 DEF RefsFollow, Column
<1>15. GroupsShown'
    BY <1>6, <1>8 DEF GroupsShown
<1>16. FormTrue'
    <2>1. \A f \in {"new", "edit"} : form[f].open /\ form[f].sure => FormFits(form[f], f, req[q])
        BY <1>5, CommandFits
    <2> QED BY <1>1, <1>6, <2>1 DEF FormTrue, FormFits
<1>17. AskedTrue'
    BY <1>6, <1>8 DEF AskedTrue, Promises
<1>18. OnlyToggled
    BY <1>4, <1>5, <1>1 DEF OnlyToggled, Tables
<1> QED BY <1>8, <1>10, <1>11, <1>12, <1>13, <1>14, <1>15, <1>16, <1>17, <1>18
        DEF InventoryInv, Stores, Intent

(* A host is deleted. *)
LEMMA ExecDelHostStep ==
    ASSUME InventoryInv, NEW q \in REQS, ExecDelHost(q)
    PROVE  InventoryInv' /\ OnlyToggled
<1>1. /\ req[q] \in Requests /\ StageOf(req[q]) /\ BornRequest(req[q]) /\ db \in Tables
      /\ req[q].st = "asked" /\ req[q].op = "delHost" /\ req[q].op \notin Reads
    BY DEF InventoryInv, InventoryTyped, Shape, Stages, Born, ExecDelHost, Reads
<1>2. PICK h \in HOSTS : h = req[q].h
    BY <1>1 DEF StageOf
<1>3. PICK tables : tables = [db EXCEPT !.hosts = @ \ {h}, !.refs[h] = {}]
    OBVIOUS
<1>4. /\ tables \in Tables /\ tables.hosts = db.hosts \ {h} /\ tables.rows = db.rows
      /\ tables.refs[h] = {} /\ \A g \in HOSTS \ {h} : tables.refs[g] = db.refs[g]
    BY <1>1, <1>3 DEF Tables
<1>5. CommandDone(q) /\ req'[q].h = h /\ req'[q].r = req[q].r /\ db' = tables
    <2>1. PICK r : r = req[q].r
        OBVIOUS
    <2>2. h \in HostIds /\ r \in SUBSET (ROWS \cup {"created"})
        BY <1>1, <1>2, <2>1 DEF Requests
    <2>3. PICK done : done = req[q]
        OBVIOUS
    <2>4. done = [req[q] EXCEPT !.h = h, !.r = r]
        BY <1>1, <1>2, <2>1, <2>3 DEF Requests
    <2>5. Executed(q, tables, done)
        BY <1>2, <1>3, <2>3 DEF ExecDelHost, Executed
    <2> QED BY <1>1, <2>1, <2>2, <2>4, <2>5, ExecutedDone
<1>6. /\ UNCHANGED <<kind, seen, form, dubious>> /\ born' = born
      /\ req'[q].st = "ok" /\ req'[q].op = "delHost" /\ req'[q].by = req[q].by
      /\ req'[q].refs = req[q].refs /\ req'[q].parts = req[q].parts /\ req'[q].got = req[q].got
    BY <1>1, <1>5 DEF CommandDone, ExecDelHost
<1>7. StageOf(req[q])' /\ BornRequest(req[q])' /\ BornTable(db)'
    <2>1. StageOf(req[q])'
        BY <1>1, <1>2, <1>5, <1>6 DEF StageOf, Reads
    <2>2. BornRequest(req[q])'
        BY <1>1, <1>2, <1>5, <1>6 DEF BornRequest, BornTable
    <2>3. BornTable(db)'
        <3>1. BornTable(db)
            BY DEF InventoryInv, InventoryTyped, Born
        <3> QED BY <1>4, <1>5, <1>6, <3>1 DEF BornTable
    <2> QED BY <2>1, <2>2, <2>3
<1>8. /\ InventoryTyped' /\ OneSole' /\ ReadTrue' /\ OfThisOpening'
      /\ \A x \in REQS : Sole(x)' => x = q
      /\ \A x \in REQS : Promises(x)' => x = q
      /\ Waiting(q)'
    <2>1. db' \in Tables /\ born' \in SUBSET (HOSTS \cup ROWS) /\ born \subseteq born'
        BY <1>4, <1>5, <1>6 DEF InventoryInv, InventoryTyped, Shape
    <2> QED BY <1>5, <1>7, <2>1, CommandKeeps
<1>9. /\ HostsSure' => \A g \in HOSTS : g \in db.hosts <=> g \in seen.hosts
      /\ RowsSure' => \A r \in ROWS : r \in db.rows <=> r \in seen.rows
      /\ RefsSure' => \A g \in db.hosts : \/ Column /\ g \notin seen.hosts
                                          \/ seen.refs[g] \cap db.rows = db.refs[g]
      /\ RefsSure' /\ kind = "group" => \A g \in db.hosts :
                 \/ g \notin seen.hosts \/ seen.refs[g] \subseteq db.rows
                 \/ \E x \in REQS \ {q} : Waiting(x)' /\ req'[x].op = "delRow"
    BY <1>5, CommandFollows
<1>10. ForeignKeys'
    BY <1>4, <1>5 DEF InventoryInv, Stores, ForeignKeys
<1>11. Held'
    BY <1>4, <1>5, <1>6, <1>8 DEF Held
<1>12. HostsFollow'
    <2> SUFFICES ASSUME HostsSure'
                 PROVE  /\ \A g \in HOSTS : g \in db'.hosts <=>
                              /\ \/ g \in seen'.hosts
                                 \/ \E x \in REQS : Sole(x)' /\ req'[x].op = "save" /\ req'[x].h = g
                              /\ ~\E x \in REQS :
                                    Sole(x)' /\ req'[x].op = "delHost" /\ req'[x].h = g
                        /\ \A x \in REQS : ~(Sole(x)' /\ req'[x].op = "save")
        BY DEF HostsFollow
    <2>1. Sole(q)'
        BY <1>6, <1>8 DEF HostsSure, Sole
    <2> QED BY <1>4, <1>5, <1>6, <1>8, <1>9, <2>1
<1>13. RowsFollow'
    BY <1>4, <1>5, <1>6, <1>8, <1>9 DEF RowsFollow
<1>14. RefsFollow'
    <2>1. db.hosts \subseteq HOSTS
        BY <1>1 DEF Tables
    <2> QED BY <1>4, <1>5, <1>6, <1>9, <2>1 DEF RefsFollow, Column
<1>15. GroupsShown'
    <2>1. db.hosts \subseteq HOSTS
        BY <1>1 DEF Tables
    <2> QED BY <1>4, <1>5, <1>6, <1>9, <2>1 DEF GroupsShown
<1>16. FormTrue'
    <2>1. \A f \in {"new", "edit"} : form[f].open /\ form[f].sure => FormFits(form[f], f, req[q])
        BY <1>2, <1>5, CommandFits
    <2> QED BY <1>1, <1>6, <2>1 DEF FormTrue, FormFits
<1>17. AskedTrue'
    BY <1>6, <1>8 DEF AskedTrue, Promises
<1>18. OnlyToggled
    BY <1>4, <1>5, <1>1 DEF OnlyToggled, Tables
<1> QED BY <1>8, <1>10, <1>11, <1>12, <1>13, <1>14, <1>15, <1>16, <1>17, <1>18
        DEF InventoryInv, Stores, Intent

(* A host is moved. *)
LEMMA ExecMoveStep ==
    ASSUME InventoryInv, NEW q \in REQS, ExecMove(q)
    PROVE  InventoryInv' /\ OnlyToggled
<1>1. /\ req[q] \in Requests /\ StageOf(req[q]) /\ BornRequest(req[q]) /\ db \in Tables
      /\ req[q].st = "asked" /\ req[q].op = "move" /\ req[q].op \notin Reads
    BY DEF InventoryInv, InventoryTyped, Shape, Stages, Born, ExecMove, Reads
<1>2. PICK h \in HOSTS : h = req[q].h
    BY <1>1 DEF StageOf
<1>3. PICK tables : tables = [db EXCEPT !.refs[h] = IF h \in db.hosts THEN req[q].refs ELSE @]
    OBVIOUS
<1>4. /\ tables \in Tables /\ tables.hosts = db.hosts /\ tables.rows = db.rows
      /\ tables.refs[h] = IF h \in db.hosts THEN req[q].refs ELSE db.refs[h]
      /\ req[q].refs \subseteq db.rows /\ req[q].refs \subseteq born
      /\ \A g \in HOSTS \ {h} : tables.refs[g] = db.refs[g]
    BY <1>1, <1>3 DEF Tables, Requests, BornRequest, ExecMove
<1>5. CommandDone(q) /\ req'[q].h = h /\ req'[q].r = req[q].r /\ db' = tables
    <2>1. PICK r : r = req[q].r
        OBVIOUS
    <2>2. h \in HostIds /\ r \in SUBSET (ROWS \cup {"created"})
        BY <1>1, <1>2, <2>1 DEF Requests
    <2>3. PICK done : done = req[q]
        OBVIOUS
    <2>4. done = [req[q] EXCEPT !.h = h, !.r = r]
        BY <1>1, <1>2, <2>1, <2>3 DEF Requests
    <2>5. Executed(q, tables, done)
        BY <1>2, <1>3, <2>3 DEF ExecMove, Executed
    <2> QED BY <1>1, <2>1, <2>2, <2>4, <2>5, ExecutedDone
<1>6. /\ UNCHANGED <<kind, seen, form, dubious>> /\ born' = born
      /\ req'[q].st = "ok" /\ req'[q].op = "move" /\ req'[q].by = req[q].by
      /\ req'[q].refs = req[q].refs /\ req'[q].parts = req[q].parts /\ req'[q].got = req[q].got
    BY <1>1, <1>5 DEF CommandDone, ExecMove
<1>7. StageOf(req[q])' /\ BornRequest(req[q])' /\ BornTable(db)'
    <2>1. StageOf(req[q])'
        BY <1>1, <1>2, <1>5, <1>6 DEF StageOf, Reads
    <2>2. BornRequest(req[q])'
        BY <1>1, <1>2, <1>5, <1>6 DEF BornRequest, BornTable
    <2>3. BornTable(db)'
        <3>1. BornTable(db)
            BY DEF InventoryInv, InventoryTyped, Born
        <3> QED BY <1>4, <1>5, <1>6, <3>1 DEF BornTable
    <2> QED BY <2>1, <2>2, <2>3
<1>8. /\ InventoryTyped' /\ OneSole' /\ ReadTrue' /\ OfThisOpening'
      /\ \A x \in REQS : Sole(x)' => x = q
      /\ \A x \in REQS : Promises(x)' => x = q
      /\ Waiting(q)'
    <2>1. db' \in Tables /\ born' \in SUBSET (HOSTS \cup ROWS) /\ born \subseteq born'
        BY <1>4, <1>5, <1>6 DEF InventoryInv, InventoryTyped, Shape
    <2> QED BY <1>5, <1>7, <2>1, CommandKeeps
<1>9. /\ HostsSure' => \A g \in HOSTS : g \in db.hosts <=> g \in seen.hosts
      /\ RowsSure' => \A r \in ROWS : r \in db.rows <=> r \in seen.rows
      /\ RefsSure' => \A g \in db.hosts : \/ Column /\ g \notin seen.hosts
                                          \/ seen.refs[g] \cap db.rows = db.refs[g]
      /\ RefsSure' /\ kind = "group" => \A g \in db.hosts :
                 \/ g \notin seen.hosts \/ seen.refs[g] \subseteq db.rows
                 \/ \E x \in REQS \ {q} : Waiting(x)' /\ req'[x].op = "delRow"
    BY <1>5, CommandFollows
<1>10. ForeignKeys'
    BY <1>4, <1>5 DEF InventoryInv, Stores, ForeignKeys
<1>11. Held'
    BY <1>4, <1>5, <1>6, <1>8 DEF Held
<1>12. HostsFollow' /\ RowsFollow'
    BY <1>4, <1>5, <1>6, <1>8, <1>9 DEF HostsFollow, RowsFollow
<1>13. RefsSure' => Rewritten(h)'
    BY <1>5, <1>6, <1>8 DEF RefsSure, Rewritten, Sole, SetsRefs
<1>14. RefsFollow'
    <2>1. db.hosts \subseteq HOSTS
        BY <1>1 DEF Tables
    <2> QED BY <1>4, <1>5, <1>6, <1>9, <1>13, <2>1 DEF RefsFollow, Column
<1>15. GroupsShown'
    <2>1. db.hosts \subseteq HOSTS
        BY <1>1 DEF Tables
    <2> QED BY <1>4, <1>5, <1>6, <1>8, <1>9, <1>13, <2>1 DEF GroupsShown
<1>16. FormTrue'
    <2>1. \A f \in {"new", "edit"} : form[f].open /\ form[f].sure => FormFits(form[f], f, req[q])
        BY <1>2, <1>5, CommandFits
    <2> QED BY <1>1, <1>6, <2>1 DEF FormTrue, FormFits
<1>17. AskedTrue'
    BY <1>6, <1>8 DEF AskedTrue, Promises
<1>18. OnlyToggled
    <2> SUFFICES ASSUME NEW g \in db.hosts \cap db'.hosts, NEW r \in db.rows \cap db'.rows,
                        (r \in db.refs[g]) # (r \in db'.refs[g]), ~req[q].hasty
                 PROVE  r \in req[q].toggled
        BY <1>1, <1>6 DEF OnlyToggled
    <2>1. g = h /\ db'.refs[h] = req[q].refs
        BY <1>1, <1>4, <1>5 DEF Tables
    <2>2. Promises(q)
        BY <1>1 DEF Promises
    <2>3. Differ(req[q].refs, db.refs[h]) \cap db.rows \subseteq req[q].toggled
        BY <1>2, <2>1, <2>2 DEF InventoryInv, Intent, AskedTrue, RequestFits
    <2> QED BY <2>1, <2>3 DEF Differ
<1> QED BY <1>8, <1>10, <1>11, <1>12, <1>14, <1>15, <1>16, <1>17, <1>18
        DEF InventoryInv, Stores, Intent

(* The links of a host are rewritten. *)
LEMMA ExecLinksStep ==
    ASSUME InventoryInv, NEW q \in REQS, ExecLinks(q)
    PROVE  InventoryInv' /\ OnlyToggled
<1>1. /\ req[q] \in Requests /\ StageOf(req[q]) /\ BornRequest(req[q]) /\ db \in Tables
      /\ req[q].st = "asked" /\ req[q].op = "links" /\ req[q].op \notin Reads
    BY DEF InventoryInv, InventoryTyped, Shape, Stages, Born, ExecLinks, Reads
<1>2. PICK h \in HOSTS : h = req[q].h
    BY <1>1 DEF StageOf
<1>3. PICK tables : tables = [db EXCEPT !.refs[h] = req[q].refs]
    OBVIOUS
<1>4. /\ tables \in Tables /\ tables.hosts = db.hosts /\ tables.rows = db.rows
      /\ tables.refs[h] = req[q].refs /\ h \in db.hosts
      /\ req[q].refs \subseteq db.rows /\ req[q].refs \subseteq born
      /\ \A g \in HOSTS \ {h} : tables.refs[g] = db.refs[g]
    BY <1>1, <1>2, <1>3 DEF Tables, Requests, BornRequest, ExecLinks
<1>5. CommandDone(q) /\ req'[q].h = h /\ req'[q].r = req[q].r /\ db' = tables
    <2>1. PICK r : r = req[q].r
        OBVIOUS
    <2>2. h \in HostIds /\ r \in SUBSET (ROWS \cup {"created"})
        BY <1>1, <1>2, <2>1 DEF Requests
    <2>3. PICK done : done = req[q]
        OBVIOUS
    <2>4. done = [req[q] EXCEPT !.h = h, !.r = r]
        BY <1>1, <1>2, <2>1, <2>3 DEF Requests
    <2>5. Executed(q, tables, done)
        BY <1>2, <1>3, <2>3 DEF ExecLinks, Executed
    <2> QED BY <1>1, <2>1, <2>2, <2>4, <2>5, ExecutedDone
<1>6. /\ UNCHANGED <<kind, seen, form, dubious>> /\ born' = born
      /\ req'[q].st = "ok" /\ req'[q].op = "links" /\ req'[q].by = req[q].by
      /\ req'[q].refs = req[q].refs /\ req'[q].parts = req[q].parts /\ req'[q].got = req[q].got
    BY <1>1, <1>5 DEF CommandDone, ExecLinks
<1>7. StageOf(req[q])' /\ BornRequest(req[q])' /\ BornTable(db)'
    <2>1. StageOf(req[q])'
        BY <1>1, <1>2, <1>5, <1>6 DEF StageOf, Reads
    <2>2. BornRequest(req[q])'
        BY <1>1, <1>2, <1>5, <1>6 DEF BornRequest, BornTable
    <2>3. BornTable(db)'
        <3>1. BornTable(db)
            BY DEF InventoryInv, InventoryTyped, Born
        <3> QED BY <1>4, <1>5, <1>6, <3>1 DEF BornTable
    <2> QED BY <2>1, <2>2, <2>3
<1>8. /\ InventoryTyped' /\ OneSole' /\ ReadTrue' /\ OfThisOpening'
      /\ \A x \in REQS : Sole(x)' => x = q
      /\ \A x \in REQS : Promises(x)' => x = q
      /\ Waiting(q)'
    <2>1. db' \in Tables /\ born' \in SUBSET (HOSTS \cup ROWS) /\ born \subseteq born'
        BY <1>4, <1>5, <1>6 DEF InventoryInv, InventoryTyped, Shape
    <2> QED BY <1>5, <1>7, <2>1, CommandKeeps
<1>9. /\ HostsSure' => \A g \in HOSTS : g \in db.hosts <=> g \in seen.hosts
      /\ RowsSure' => \A r \in ROWS : r \in db.rows <=> r \in seen.rows
      /\ RefsSure' => \A g \in db.hosts : \/ Column /\ g \notin seen.hosts
                                          \/ seen.refs[g] \cap db.rows = db.refs[g]
      /\ RefsSure' /\ kind = "group" => \A g \in db.hosts :
                 \/ g \notin seen.hosts \/ seen.refs[g] \subseteq db.rows
                 \/ \E x \in REQS \ {q} : Waiting(x)' /\ req'[x].op = "delRow"
    BY <1>5, CommandFollows
<1>10. ForeignKeys'
    BY <1>4, <1>5 DEF InventoryInv, Stores, ForeignKeys
<1>11. Held'
    BY <1>4, <1>5, <1>6, <1>8 DEF Held
<1>12. HostsFollow' /\ RowsFollow'
    BY <1>4, <1>5, <1>6, <1>8, <1>9 DEF HostsFollow, RowsFollow
<1>13. RefsSure' => Rewritten(h)'
    BY <1>5, <1>6, <1>8 DEF RefsSure, Rewritten, Sole, SetsRefs
<1>14. RefsFollow'
    <2>1. db.hosts \subseteq HOSTS
        BY <1>1 DEF Tables
    <2> QED BY <1>4, <1>5, <1>6, <1>9, <1>13, <2>1 DEF RefsFollow, Column
<1>15. GroupsShown'
    <2>1. db.hosts \subseteq HOSTS
        BY <1>1 DEF Tables
    <2> QED BY <1>4, <1>5, <1>6, <1>8, <1>9, <1>13, <2>1 DEF GroupsShown
<1>16. FormTrue'
    <2> SUFFICES ASSUME NEW f \in {"new", "edit"}, form[f].open, form[f].sure
                 PROVE  /\ f = "new" => form[f].refs \subseteq form[f].toggled
                        /\ f = "edit" /\ form[f].h \in db'.hosts =>
                              Differ(form[f].refs, db'.refs[form[f].h]) \cap db'.rows
                                  \subseteq form[f].toggled
                        /\ \A x \in REQS : req'[x].st # "free" /\ ~Reading(x)' =>
                                              FormFits(form[f], f, req'[x])
        BY <1>6 DEF FormTrue, FormFits, Differ
    <2>1. /\ FormFits(form[f], f, req[q])
          /\ f = "new" => form[f].refs \subseteq form[f].toggled
          /\ \A x \in REQS : req'[x].st # "free" /\ ~Reading(x)' => FormFits(form[f], f, req'[x])
        BY <1>2, <1>5, CommandFits
    <2>2. CASE f = "edit"
        <3>1. form[f].h = h /\ Differ(form[f].refs, req[q].refs) \subseteq form[f].toggled
            BY <1>1, <1>2, <2>1, <2>2 DEF FormFits
        <3> QED BY <1>4, <1>5, <2>1, <2>2, <3>1
    <2> QED BY <2>1, <2>2
<1>17. AskedTrue'
    BY <1>6, <1>8 DEF AskedTrue, Promises
<1>18. OnlyToggled
    <2> SUFFICES ASSUME NEW g \in db.hosts \cap db'.hosts, NEW r \in db.rows \cap db'.rows,
                        (r \in db.refs[g]) # (r \in db'.refs[g]), ~req[q].hasty
                 PROVE  r \in req[q].toggled
        BY <1>1, <1>6 DEF OnlyToggled
    <2>1. g = h /\ db'.refs[h] = req[q].refs
        BY <1>1, <1>4, <1>5 DEF Tables
    <2>2. Promises(q)
        BY <1>1 DEF Promises
    <2>3. Differ(req[q].refs, db.refs[h]) \cap db.rows \subseteq req[q].toggled
        BY <1>2, <2>1, <2>2 DEF InventoryInv, Intent, AskedTrue, RequestFits
    <2> QED BY <2>1, <2>3 DEF Differ
<1> QED BY <1>8, <1>10, <1>11, <1>12, <1>14, <1>15, <1>16, <1>17, <1>18
        DEF InventoryInv, Stores, Intent

(* A row is created, which nothing refers to yet. *)
LEMMA ExecNewRowStep ==
    ASSUME InventoryInv, NEW q \in REQS, ExecNewRow(q)
    PROVE  InventoryInv' /\ OnlyToggled
<1>1. /\ req[q] \in Requests /\ StageOf(req[q]) /\ BornRequest(req[q]) /\ db \in Tables
      /\ BornTable(db) /\ BornTable(seen)
      /\ req[q].st = "asked" /\ req[q].op = "newRow" /\ req[q].op \notin Reads
    BY DEF InventoryInv, InventoryTyped, Shape, Stages, Born, ExecNewRow, Reads
<1>2. PICK r \in OneId(ROWS \ born) :
        /\ Executed(q, [db EXCEPT !.rows = @ \cup {r}], [req[q] EXCEPT !.r = {r}])
        /\ born' = born \cup {r}
    BY DEF ExecNewRow
<1>3. r \in ROWS /\ r \notin born
    BY DEF OneId
<1>4. PICK tables : tables = [db EXCEPT !.rows = @ \cup {r}]
    OBVIOUS
<1>5. /\ tables \in Tables /\ tables.hosts = db.hosts /\ tables.rows = db.rows \cup {r}
      /\ tables.refs = db.refs
    BY <1>1, <1>3, <1>4 DEF Tables
<1>6. PICK rs : rs = {r}
    OBVIOUS
<1>7. CommandDone(q) /\ req'[q].h = req[q].h /\ req'[q].r = rs /\ db' = tables
    <2>1. PICK h : h = req[q].h
        OBVIOUS
    <2>2. h \in HostIds /\ rs \in SUBSET (ROWS \cup {"created"})
        BY <1>1, <1>3, <1>6, <2>1 DEF Requests
    <2>3. PICK done : done = [req[q] EXCEPT !.r = rs]
        OBVIOUS
    <2>4. done = [req[q] EXCEPT !.h = h, !.r = rs]
        BY <1>1, <2>1, <2>3 DEF Requests
    <2>5. Executed(q, tables, done)
        BY <1>2, <1>4, <1>6, <2>3 DEF Executed
    <2> QED BY <1>1, <2>1, <2>2, <2>4, <2>5, ExecutedDone
<1>8. /\ UNCHANGED <<kind, seen, form, dubious>> /\ born' = born \cup {r}
      /\ req'[q].st = "ok" /\ req'[q].op = "newRow" /\ req'[q].by = req[q].by
      /\ req'[q].refs = req[q].refs /\ req'[q].parts = req[q].parts /\ req'[q].got = req[q].got
    BY <1>1, <1>2, <1>7 DEF CommandDone
<1>9. StageOf(req[q])' /\ BornRequest(req[q])' /\ BornTable(db)'
    <2>1. StageOf(req[q])'
        BY <1>1, <1>3, <1>6, <1>7, <1>8 DEF StageOf, Reads
    <2>2. BornRequest(req[q])'
        BY <1>1, <1>6, <1>7, <1>8 DEF BornRequest, BornTable
    <2>3. BornTable(db)'
        BY <1>1, <1>5, <1>7, <1>8 DEF BornTable
    <2> QED BY <2>1, <2>2, <2>3
<1>10. /\ InventoryTyped' /\ OneSole' /\ ReadTrue' /\ OfThisOpening'
       /\ \A x \in REQS : Sole(x)' => x = q
       /\ \A x \in REQS : Promises(x)' => x = q
       /\ Waiting(q)'
    <2>1. db' \in Tables /\ born' \in SUBSET (HOSTS \cup ROWS) /\ born \subseteq born'
        BY <1>3, <1>5, <1>7, <1>8 DEF InventoryInv, InventoryTyped, Shape
    <2> QED BY <1>7, <1>9, <2>1, CommandKeeps
<1>11. /\ HostsSure' => \A h \in HOSTS : h \in db.hosts <=> h \in seen.hosts
       /\ RowsSure' => \A s \in ROWS : s \in db.rows <=> s \in seen.rows
       /\ RefsSure' => \A h \in db.hosts : \/ Column /\ h \notin seen.hosts
                                           \/ seen.refs[h] \cap db.rows = db.refs[h]
       /\ RefsSure' /\ kind = "group" => \A h \in db.hosts :
                  \/ h \notin seen.hosts \/ seen.refs[h] \subseteq db.rows
                  \/ \E x \in REQS \ {q} : Waiting(x)' /\ req'[x].op = "delRow"
    BY <1>7, CommandFollows
<1>12. \A h \in db.hosts : h \in HOSTS /\ r \notin db.refs[h] /\ r \notin seen.refs[h]
    BY <1>1, <1>3 DEF BornTable, Tables
<1>13. ForeignKeys'
    BY <1>5, <1>7 DEF InventoryInv, Stores, ForeignKeys
<1>14. Held'
    BY <1>5, <1>6, <1>7, <1>8, <1>10 DEF Held
<1>15. HostsFollow'
    BY <1>5, <1>7, <1>8, <1>10, <1>11 DEF HostsFollow
<1>16. RowsFollow'
    <2> SUFFICES ASSUME RowsSure'
                 PROVE  \A s \in ROWS : s \in db'.rows <=>
                           /\ \/ s \in seen'.rows
                              \/ \E x \in REQS :
                                    Sole(x)' /\ req'[x].op = "newRow" /\ s \in req'[x].r
                           /\ ~\E x \in REQS : Sole(x)' /\ req'[x].op = "delRow" /\ s \in req'[x].r
        BY DEF RowsFollow
    <2>1. Sole(q)'
        BY <1>8, <1>10 DEF RowsSure, Sole
    <2> QED BY <1>5, <1>6, <1>7, <1>8, <1>10, <1>11, <2>1
<1>17. RefsFollow'
    BY <1>5, <1>7, <1>8, <1>11, <1>12 DEF RefsFollow, Column
<1>18. GroupsShown'
    <2> SUFFICES ASSUME RefsSure', kind = "group", NEW h \in db.hosts,
                        \A x \in REQS : Waiting(x)' => req'[x].op # "delRow"
                 PROVE  h \notin seen.hosts \/ seen.refs[h] \subseteq db'.rows
        BY <1>5, <1>7, <1>8 DEF GroupsShown
    <2> QED BY <1>5, <1>7, <1>11
<1>19. FormTrue'
    <2> SUFFICES ASSUME NEW f \in {"new", "edit"}, form[f].open, form[f].sure
                 PROVE  /\ f = "new" => form[f].refs \subseteq form[f].toggled
                        /\ f = "edit" /\ form[f].h \in db'.hosts =>
                              Differ(form[f].refs, db'.refs[form[f].h]) \cap db'.rows
                                  \subseteq form[f].toggled
                        /\ \A x \in REQS : req'[x].st # "free" /\ ~Reading(x)' =>
                                              FormFits(form[f], f, req'[x])
        BY <1>8 DEF FormTrue, FormFits, Differ
    <2>1. /\ f = "new" => form[f].refs \subseteq form[f].toggled
          /\ f = "edit" /\ form[f].h \in db.hosts =>
                Differ(form[f].refs, db.refs[form[f].h]) \cap db.rows \subseteq form[f].toggled
          /\ \A x \in REQS : req'[x].st # "free" /\ ~Reading(x)' => FormFits(form[f], f, req'[x])
        BY <1>7, CommandFits
    <2>2. r \notin form[f].refs
        BY <1>3 DEF InventoryInv, InventoryTyped, Born, BornForm, Forms
    <2> QED BY <1>5, <1>7, <1>12, <2>1, <2>2 DEF Differ
<1>20. AskedTrue'
    BY <1>8, <1>10 DEF AskedTrue, Promises
<1>21. OnlyToggled
    BY <1>5, <1>7 DEF OnlyToggled
<1> QED BY <1>10, <1>13, <1>14, <1>15, <1>16, <1>17, <1>18, <1>19, <1>20, <1>21
        DEF InventoryInv, Stores, Intent

(* A host is created or updated, for a column with what it refers to. *)
LEMMA ExecSaveStep ==
    ASSUME InventoryInv, NEW q \in REQS, ExecSave(q)
    PROVE  InventoryInv' /\ OnlyToggled
<1>1. /\ req[q] \in Requests /\ StageOf(req[q]) /\ BornRequest(req[q]) /\ db \in Tables
      /\ BornTable(db) /\ BornTable(seen)
      /\ req[q].st = "asked" /\ req[q].op = "save" /\ req[q].op \notin Reads
      /\ Column => req[q].refs \subseteq db.rows
    BY DEF InventoryInv, InventoryTyped, Shape, Stages, Born, ExecSave, Reads
<1>2. PICK h \in IF req[q].h = NoHost THEN OneId(HOSTS \ born) ELSE db.hosts \cap {req[q].h} :
          /\ Executed(q, [db EXCEPT !.hosts = @ \cup {h},
                                    !.refs[h] = IF Column THEN req[q].refs ELSE @],
                         [req[q] EXCEPT !.h = h,
                                        !.r = IF req[q].h = NoHost THEN {"created"} ELSE {}])
          /\ born' = born \cup {h}
    BY DEF ExecSave
<1>3. /\ h \in HOSTS /\ h # NoHost
      /\ req[q].h # NoHost => h \in db.hosts /\ h = req[q].h /\ h \in born
      /\ req[q].h = NoHost =>
            h \notin born /\ h \notin db.hosts /\ db.refs[h] = {} /\ seen.refs[h] = {}
    BY <1>1, <1>2, InventoryAssumption DEF OneId, Tables, BornTable
<1>4. PICK tables : tables = [db EXCEPT !.hosts = @ \cup {h},
                                        !.refs[h] = IF Column THEN req[q].refs ELSE @]
    OBVIOUS
<1>5. /\ tables \in Tables /\ tables.hosts = db.hosts \cup {h} /\ tables.rows = db.rows
      /\ tables.refs[h] = IF Column THEN req[q].refs ELSE db.refs[h]
      /\ \A g \in HOSTS \ {h} : tables.refs[g] = db.refs[g]
    BY <1>1, <1>3, <1>4 DEF Tables, Requests
<1>6. PICK rs : rs = IF req[q].h = NoHost THEN {"created"} ELSE {}
    OBVIOUS
<1>7. CommandDone(q) /\ req'[q].h = h /\ req'[q].r = rs /\ db' = tables
    <2>1. h \in HostIds /\ rs \in SUBSET (ROWS \cup {"created"})
        BY <1>3, <1>6 DEF HostIds
    <2>2. PICK done : done = [req[q] EXCEPT !.h = h, !.r = rs]
        OBVIOUS
    <2>3. Executed(q, tables, done)
        BY <1>2, <1>4, <1>6, <2>2 DEF Executed
    <2> QED BY <1>1, <2>1, <2>2, <2>3, ExecutedDone
<1>8. /\ UNCHANGED <<kind, seen, form, dubious>> /\ born' = born \cup {h}
      /\ req'[q].st = "ok" /\ req'[q].op = "save" /\ req'[q].by = req[q].by
      /\ req'[q].refs = req[q].refs /\ req'[q].parts = req[q].parts /\ req'[q].got = req[q].got
      /\ req'[q].toggled = req[q].toggled /\ req'[q].hasty = req[q].hasty
    BY <1>1, <1>2, <1>7 DEF CommandDone
<1>9. StageOf(req[q])' /\ BornRequest(req[q])' /\ BornTable(db)'
    <2>1. StageOf(req[q])'
        BY <1>1, <1>3, <1>7, <1>8 DEF StageOf, Reads
    <2>2. BornRequest(req[q])'
        BY <1>1, <1>7, <1>8 DEF BornRequest, BornTable
    <2>3. BornTable(db)'
        BY <1>1, <1>3, <1>5, <1>7, <1>8 DEF BornTable, BornRequest
    <2> QED BY <2>1, <2>2, <2>3
<1>10. /\ InventoryTyped' /\ OneSole' /\ ReadTrue' /\ OfThisOpening'
       /\ \A x \in REQS : Sole(x)' => x = q
       /\ \A x \in REQS : Promises(x)' => x = q
       /\ Waiting(q)'
    <2>1. db' \in Tables /\ born' \in SUBSET (HOSTS \cup ROWS) /\ born \subseteq born'
        BY <1>3, <1>5, <1>7, <1>8 DEF InventoryInv, InventoryTyped, Shape
    <2> QED BY <1>7, <1>9, <2>1, CommandKeeps
<1>11. /\ HostsSure' => \A g \in HOSTS : g \in db.hosts <=> g \in seen.hosts
       /\ RowsSure' => \A r \in ROWS : r \in db.rows <=> r \in seen.rows
       /\ RefsSure' => \A g \in db.hosts : \/ Column /\ g \notin seen.hosts
                                           \/ seen.refs[g] \cap db.rows = db.refs[g]
       /\ RefsSure' /\ kind = "group" => \A g \in db.hosts :
                  \/ g \notin seen.hosts \/ seen.refs[g] \subseteq db.rows
                  \/ \E x \in REQS \ {q} : Waiting(x)' /\ req'[x].op = "delRow"
    BY <1>7, CommandFollows
<1>12. RefsSure' /\ Column => Rewritten(h)'
    BY <1>7, <1>8, <1>10 DEF RefsSure, Rewritten, Sole, SetsRefs, Column
<1>13. ForeignKeys'
    BY <1>1, <1>3, <1>5, <1>7 DEF InventoryInv, Stores, ForeignKeys
<1>14. Held'
    BY <1>5, <1>7, <1>8, <1>10 DEF Held, Column
<1>15. HostsFollow'
    <2> SUFFICES ASSUME HostsSure'
                 PROVE  /\ \A g \in HOSTS : g \in db'.hosts <=>
                              /\ \/ g \in seen'.hosts
                                 \/ \E x \in REQS : Sole(x)' /\ req'[x].op = "save" /\ req'[x].h = g
                              /\ ~\E x \in REQS :
                                    Sole(x)' /\ req'[x].op = "delHost" /\ req'[x].h = g
                        /\ \A x \in REQS : Sole(x)' /\ req'[x].op = "save" /\ req'[x].r = {}
                                              => req'[x].h \in seen'.hosts
        BY DEF HostsFollow
    <2>1. Sole(q)'
        BY <1>8, <1>10 DEF HostsSure, Sole
    <2>2. req'[q].r = {} => h \in seen.hosts
        BY <1>3, <1>6, <1>7, <1>11
    <2> QED BY <1>5, <1>7, <1>8, <1>10, <1>11, <2>1, <2>2
<1>16. RowsFollow'
    BY <1>5, <1>7, <1>8, <1>10, <1>11 DEF RowsFollow
<1>17. RefsFollow'
    <2> SUFFICES ASSUME RefsSure', NEW g \in db'.hosts
                 PROVE  \/ Rewritten(g)'
                        \/ Column /\ g \notin seen.hosts
                        \/ seen.refs[g] \cap db'.rows = db'.refs[g]
        BY <1>8 DEF RefsFollow, Column
    <2>1. CASE g # h
        <3>1. g \in db.hosts /\ g \in HOSTS
            BY <1>1, <1>5, <1>7, <2>1 DEF Tables
        <3> QED BY <1>5, <1>7, <1>11, <2>1, <3>1
    <2>2. CASE g = h
        <3>1. ~Column /\ h \in db.hosts => seen.refs[g] \cap db'.rows = db'.refs[g]
            BY <1>5, <1>7, <1>11, <2>2
        <3>2. ~Column /\ h \notin db.hosts => seen.refs[g] \cap db'.rows = db'.refs[g]
            BY <1>3, <1>5, <1>7, <2>2
        <3> QED BY <1>12, <2>2, <3>1, <3>2
    <2> QED BY <2>1, <2>2
<1>18. GroupsShown'
    <2> SUFFICES ASSUME RefsSure', kind = "group", NEW g \in db'.hosts,
                        \A x \in REQS : Waiting(x)' => req'[x].op # "delRow", ~Rewritten(g)'
                 PROVE  g \notin seen.hosts \/ seen.refs[g] \subseteq db'.rows
        BY <1>8 DEF GroupsShown
    <2>1. g # h
        BY <1>12 DEF Column
    <2> QED BY <1>5, <1>7, <1>11, <2>1
<1>19. FormTrue'
    <2> SUFFICES ASSUME NEW f \in {"new", "edit"}, form[f].open, form[f].sure
                 PROVE  /\ f = "new" => form[f].refs \subseteq form[f].toggled
                        /\ f = "edit" /\ form[f].h \in db'.hosts =>
                              Differ(form[f].refs, db'.refs[form[f].h]) \cap db'.rows
                                  \subseteq form[f].toggled
                        /\ \A x \in REQS : req'[x].st # "free" /\ ~Reading(x)' =>
                                              FormFits(form[f], f, req'[x])
        BY <1>8 DEF FormTrue, FormFits, Differ
    <2>1. req[q].by = "edit" => req'[q].h = req[q].h /\ req[q].h # NoHost
        BY <1>1, <1>3, <1>7, InventoryAssumption DEF StageOf
    <2>2. /\ FormFits(form[f], f, req[q])
          /\ f = "new" => form[f].refs \subseteq form[f].toggled
          /\ f = "edit" /\ form[f].h \in db.hosts =>
                Differ(form[f].refs, db.refs[form[f].h]) \cap db.rows \subseteq form[f].toggled
          /\ \A x \in REQS : req'[x].st # "free" /\ ~Reading(x)' => FormFits(form[f], f, req'[x])
        BY <1>7, <2>1, CommandFits
    <2>3. CASE f = "edit"
        <3>1. form[f].h = h /\ Differ(form[f].refs, req[q].refs) \subseteq form[f].toggled
            BY <1>1, <1>3, <2>1, <2>2, <2>3 DEF FormFits
        <3>2. h \in db.hosts
            BY <1>3, <2>1, <2>2, <2>3 DEF FormFits
        <3> QED BY <1>5, <1>7, <2>2, <2>3, <3>1, <3>2
    <2> QED BY <2>2, <2>3
<1>20. ~req[q].hasty =>
          /\ req[q].h = NoHost => req[q].refs \subseteq req[q].toggled
          /\ req[q].h \in db.hosts =>
                Differ(req[q].refs, db.refs[req[q].h]) \cap db.rows \subseteq req[q].toggled
    <2>1. ~req[q].hasty => Promises(q)
        BY <1>1 DEF Promises
    <2> QED BY <2>1 DEF InventoryInv, Intent, AskedTrue, RequestFits
<1>21. AskedTrue'
    <2> SUFFICES ASSUME Promises(q)' PROVE RequestFits(req[q])'
        BY <1>10 DEF AskedTrue
    <2>1. ~Column /\ ~req[q].hasty
        BY <1>8 DEF Promises, Column
    <2>2. db'.refs[h] = db.refs[h]
        BY <1>5, <1>7, <2>1
    <2>3. CASE req[q].h = NoHost
        <3>1. Differ(req[q].refs, db.refs[h]) \cap db'.rows \subseteq req[q].toggled
            BY <1>3, <1>20, <2>1, <2>3 DEF Differ
        <3> QED BY <1>3, <1>7, <1>8, <2>2, <3>1 DEF RequestFits, Differ
    <2>4. CASE req[q].h # NoHost
        <3>1. Differ(req[q].refs, db.refs[h]) \cap db.rows \subseteq req[q].toggled
            BY <1>3, <1>20, <2>1, <2>4
        <3> QED BY <1>3, <1>5, <1>7, <1>8, <2>2, <3>1 DEF RequestFits, Differ
    <2> QED BY <2>3, <2>4
<1>22. OnlyToggled
    <2> SUFFICES ASSUME NEW g \in db.hosts \cap db'.hosts, NEW r \in db.rows \cap db'.rows,
                        (r \in db.refs[g]) # (r \in db'.refs[g]), ~req[q].hasty
                 PROVE  r \in req[q].toggled
        BY <1>1, <1>8 DEF OnlyToggled
    <2>1. g = h /\ db'.refs[h] = req[q].refs
        BY <1>1, <1>5, <1>7 DEF Tables
    <2>2. req[q].h = h
        BY <1>3, <2>1
    <2>3. Differ(req[q].refs, db.refs[h]) \cap db.rows \subseteq req[q].toggled
        BY <1>20, <2>1, <2>2
    <2> QED BY <2>1, <2>3 DEF Differ
<1> QED BY <1>10, <1>13, <1>14, <1>15, <1>16, <1>17, <1>18, <1>19, <1>21, <1>22
        DEF InventoryInv, Stores, Intent

(* A part of a list is read: it is what the database holds. *)
LEMMA ReadStep == ASSUME InventoryInv, NEW q \in REQS, Read(q) PROVE InventoryInv'
<1>1. /\ req \in [REQS -> Requests] /\ req[q] \in Requests
      /\ StageOf(req[q]) /\ BornRequest(req[q]) /\ db \in Tables /\ BornTable(db)
      /\ req[q].got \in Tables /\ req[q].st = "asked"
    BY DEF InventoryInv, InventoryTyped, Shape, Stages, Born, Read, Requests
<1>2. PICK part \in req[q].parts :
          req' = [req EXCEPT
             ![q].got = [f \in Cells |-> IF f \in part THEN db[f] ELSE @[f]],
             ![q].parts = @ \ {part},
             ![q].st = IF req[q].parts = {part} THEN "ok" ELSE "asked"]
    BY DEF Read
<1>3. Reading(q) /\ req[q].parts \subseteq AllParts(req[q].op)
    BY <1>1, <1>2 DEF StageOf, Reading, Reads
<1>4. PICK m : m = [f \in Cells |-> IF f \in part THEN db[f] ELSE req[q].got[f]]
    OBVIOUS
<1>5. m \in Tables /\ BornTable(m)
    <2>1. /\ m \in Tables
          /\ m.hosts = IF "hosts" \in part THEN db.hosts ELSE req[q].got.hosts
          /\ m.rows = IF "rows" \in part THEN db.rows ELSE req[q].got.rows
          /\ m.refs = IF "refs" \in part THEN db.refs ELSE req[q].got.refs
        BY <1>1, <1>4, Mixture
    <2> QED BY <1>1, <2>1 DEF BornTable, BornRequest
<1>6. PICK c : c = [req[q] EXCEPT !.got = m, !.parts = @ \ {part},
                                  !.st = IF req[q].parts = {part} THEN "ok" ELSE "asked"]
    OBVIOUS
<1>7. /\ c \in Requests /\ c.got = m /\ c.parts = req[q].parts \ {part}
      /\ c.st = IF req[q].parts = {part} THEN "ok" ELSE "asked"
      /\ c.op = req[q].op /\ c.by = req[q].by /\ c.h = req[q].h /\ c.r = req[q].r
      /\ c.refs = req[q].refs /\ c.stale = req[q].stale /\ c.late = req[q].late
      /\ c.toggled = req[q].toggled /\ c.hasty = req[q].hasty
    BY <1>1, <1>5, <1>6 DEF Requests
<1>8. /\ req' \in [REQS -> Requests] /\ req'[q] = c /\ \A x \in REQS \ {q} : req'[x] = req[x]
    <2>1. req' = [req EXCEPT ![q] = c]
        BY <1>1, <1>2, <1>4, <1>6
    <2> QED BY <1>1, <1>7, <2>1
<1>9. UNCHANGED <<kind, db, seen, born, form, drawn, dubious>>
    BY DEF Read
<1>10. Reading(q)' /\ \A x \in REQS \ {q} : Kept(x)
    BY <1>3, <1>7, <1>8 DEF Reading, Kept, Alike
<1>11. Compared'
    <2>1. \A x \in REQS : Alike(x) \/ Anew(x) \/ (Reading(x) /\ Reading(x)')
        BY <1>3, <1>10 DEF Kept
    <2>2. Compared /\ dubious \subseteq dubious'
        BY <1>9 DEF InventoryInv, Stores, Compared
    <2> QED BY <1>9, <2>1, <2>2, QuietCompared
<1>12. ReadTrue'
    <2> SUFFICES ASSUME NEW x \in REQS, Reading(x)', ~req'[x].stale,
                        NEW cell \in (UNION AllParts(req[x].op)') \ (UNION req'[x].parts)
                 PROVE  req'[x].got[cell] = db'[cell]
        BY DEF ReadTrue
    <2>1. AllParts(req[x].op)' = AllParts(req[x].op) /\ req'[x].op = req[x].op
        BY <1>7, <1>8, <1>9 DEF AllParts, HostParts, RowParts, Column
    <2>2. AllParts(req[x].op) \in SUBSET SUBSET Cells
        BY DEF AllParts, HostParts, RowParts, Cells
    <2>3. cell \in Cells
        BY <2>1, <2>2
    <2>4. Reading(x) /\ ~req[x].stale
        BY <1>7, <1>8 DEF Reading
    <2>5. \A e \in (UNION AllParts(req[x].op)) \ (UNION req[x].parts) : req[x].got[e] = db[e]
        BY <2>4 DEF InventoryInv, Stores, ReadTrue
    <2>6. CASE x # q
        BY <1>8, <1>9, <2>1, <2>5, <2>6
    <2>7. CASE x = q
        <3>1. m[cell] = IF cell \in part THEN db[cell] ELSE req[q].got[cell]
            BY <1>4, <2>3
        <3>2. cell \notin part => cell \notin UNION req[q].parts
            BY <1>7, <1>8, <2>7
        <3> QED BY <1>7, <1>8, <1>9, <2>1, <2>5, <2>7, <3>1, <3>2
    <2> QED BY <2>6, <2>7
<1>13. Stages'
    <2>1. StageOf(c)
        BY <1>1, <1>2, <1>3, <1>7 DEF StageOf, Reading, Reads
    <2>2. ASSUME NEW x \in REQS PROVE StageOf(req[x])'
        <3>1. PICK d : d = req'[x]
            OBVIOUS
        <3>2. StageOf(d)
            BY <1>8, <2>1, <3>1 DEF InventoryInv, InventoryTyped, Stages
        <3> QED BY <1>9, <3>1, <3>2 DEF StageOf, AllParts, HostParts, RowParts, Column
    <2> QED BY <2>2 DEF Stages
<1>14. Born'
    <2>1. BornRequest(c)
        BY <1>1, <1>5, <1>7 DEF BornRequest
    <2>2. ASSUME NEW x \in REQS PROVE BornRequest(req[x])'
        BY <1>8, <1>9, <2>1 DEF InventoryInv, InventoryTyped, Born, BornRequest, BornTable
    <2> QED BY <1>9, <2>2 DEF InventoryInv, InventoryTyped, Born, BornTable, BornForm
<1>15. Shape' /\ Edits'
    BY <1>8, <1>9 DEF InventoryInv, InventoryTyped, Shape, Edits, OnTop
<1>16. FormTrue'
    <2> SUFFICES ASSUME NEW f \in {"new", "edit"}, form[f].open, form[f].sure
                 PROVE  /\ f = "new" => form[f].refs \subseteq form[f].toggled
                        /\ f = "edit" /\ form[f].h \in db.hosts =>
                              Differ(form[f].refs, db.refs[form[f].h]) \cap db.rows
                                  \subseteq form[f].toggled
                        /\ \A x \in REQS : req'[x].st # "free" /\ ~Reading(x)' =>
                                              FormFits(form[f], f, req'[x])
        BY <1>9 DEF FormTrue, FormFits, Differ
    <2> QED BY <1>8, <1>10 DEF InventoryInv, Intent, FormTrue, Reading
<1>17. AskedTrue'
    <2>1. \A x \in REQS : Alike(x) \/ req'[x].op \notin {"save", "links", "move"}
        BY <1>10 DEF Reading, Kept
    <2> QED BY <1>9, <2>1, AskedKept DEF InventoryInv, Intent
<1>18. OfThisOpening'
    BY <1>7, <1>8, <1>9 DEF InventoryInv, Intent, OfThisOpening
<1> QED BY <1>11, <1>12, <1>13, <1>14, <1>15, <1>16, <1>17, <1>18
        DEF InventoryInv, InventoryTyped, Stores, Compared, Intent

----------------------------------------------------------------------------
(* Answers *)

(* A free slot asks nothing. *)
LEMMA UnaskedFits == StageOf(Unasked) /\ BornRequest(Unasked)
<1>1. Unasked.op = "none" /\ Unasked.st = "free" /\ Unasked.parts = {} /\ Unasked.by = "none"
      /\ Unasked.h = NoHost /\ Unasked.refs = {}
      /\ Unasked.got = [hosts |-> {}, rows |-> {}, refs |-> NoRefs]
    BY DEF Unasked
<1>2. BornTable([hosts |-> {}, rows |-> {}, refs |-> NoRefs])
    BY DEF BornTable, NoRefs
<1>3. BornTable(Unasked.got)
    BY <1>1, <1>2
<1> HIDE DEF Unasked
<1> QED BY <1>1, <1>3 DEF StageOf, BornRequest, Reads

(* The answer to q is applied: its slot is free again, or asks for what follows. *)
Applied(q, d) ==
    /\ req' = [req EXCEPT ![q] = d] /\ (d = Unasked \/ Askable(d))
    /\ UNCHANGED <<kind, db, born, drawn>>

(* The other requests, the reads and the database, when an answer is applied. *)
LEMMA AppliedKeeps ==
    ASSUME InventoryInv, NEW q, NEW d, Applied(q, d), q \in REQS, req[q].st # "free"
    PROVE  /\ req' \in [REQS -> Requests] /\ req'[q] = d /\ \A x \in REQS \ {q} : req'[x] = req[x]
           /\ Stages' /\ (\A x \in REQS : BornRequest(req[x])')
           /\ ForeignKeys' /\ OneSole' /\ Held' /\ ReadTrue'
           /\ ~Waiting(q)' /\ ~Sole(q)'
           /\ \A x \in REQS \ {q} : (Waiting(x)' <=> Waiting(x)) /\ (Sole(x)' <=> Sole(x))
                                      /\ (SetsRefs(x)' <=> SetsRefs(x))
<1>1. req \in [REQS -> Requests] /\ UNCHANGED <<kind, db, born>>
    BY DEF InventoryInv, InventoryTyped, Shape, Applied
<1>2. d \in Requests /\ d.st # "ok" /\ StageOf(d) /\ BornRequest(d)
    <2>1. CASE d = Unasked
        <3>1. d \in Requests /\ StageOf(d) /\ BornRequest(d)
            BY <2>1, UnaskedTyped, UnaskedFits
        <3>2. Unasked.st # "ok"
            BY DEF Unasked
        <3> QED BY <2>1, <3>1, <3>2
    <2>2. CASE Askable(d)
        BY <2>2 DEF Askable
    <2> QED BY <2>1, <2>2 DEF Applied
<1>3. /\ req' \in [REQS -> Requests] /\ req'[q] = d /\ \A x \in REQS \ {q} : req'[x] = req[x]
    BY <1>1, <1>2 DEF Applied
<1>4. Stages'
    <2> SUFFICES ASSUME NEW x \in REQS PROVE StageOf(req[x])'
        BY DEF Stages
    <2>1. PICK c : c = req'[x]
        OBVIOUS
    <2>2. StageOf(c)
        BY <1>2, <1>3, <2>1 DEF InventoryInv, InventoryTyped, Stages
    <2> QED BY <1>1, <2>1, <2>2 DEF StageOf, AllParts, HostParts, RowParts, Column
<1>5. ASSUME NEW x \in REQS PROVE BornRequest(req[x])'
    <2>1. PICK c : c = req'[x]
        OBVIOUS
    <2>2. BornRequest(c)
        BY <1>2, <1>3, <2>1 DEF InventoryInv, InventoryTyped, Born
    <2> QED BY <1>1, <2>1, <2>2 DEF BornRequest, BornTable
<1>6. ~Waiting(q)' /\ ~Sole(q)'
    BY <1>2, <1>3 DEF Waiting, Sole
<1>7. ASSUME NEW x \in REQS \ {q}
      PROVE  /\ (Waiting(x)' <=> Waiting(x)) /\ (Sole(x)' <=> Sole(x))
             /\ SetsRefs(x)' <=> SetsRefs(x)
    BY <1>1, <1>3 DEF Waiting, Sole, Reading, SetsRefs, Column
<1>8. OneSole' /\ Held' /\ ForeignKeys'
    <2>1. OneSole'
        BY <1>6, <1>7 DEF InventoryInv, Stores, OneSole
    <2>2. Held'
        BY <1>1, <1>3, <1>6, <1>7 DEF InventoryInv, Stores, Held, Column
    <2>3. ForeignKeys'
        BY <1>1 DEF InventoryInv, Stores, ForeignKeys
    <2> QED BY <2>1, <2>2, <2>3
<1>9. ReadTrue'
    <2> SUFFICES ASSUME NEW x \in REQS, Reading(x)', ~req'[x].stale,
                        NEW cell \in (UNION AllParts(req[x].op)') \ (UNION req'[x].parts)
                 PROVE  req'[x].got[cell] = db'[cell]
        BY DEF ReadTrue
    <2>1. AllParts(req[x].op)' = AllParts(req'[x].op)
        BY <1>1 DEF AllParts, HostParts, RowParts, Column
    <2>2. CASE x # q
        <3>1. Reading(x) /\ ~req[x].stale
            BY <1>3, <2>2 DEF Reading
        <3>2. \A e \in (UNION AllParts(req[x].op)) \ (UNION req[x].parts) : req[x].got[e] = db[e]
            BY <3>1 DEF InventoryInv, Stores, ReadTrue
        <3> QED BY <1>1, <1>3, <2>1, <2>2, <3>2
    <2>3. CASE x = q
        <3>1. d.op \in Reads /\ d # Unasked
            BY <1>3, <2>3 DEF Reading, Reads, Unasked
        <3>2. d.parts = AllParts(d.op)
            BY <3>1 DEF Applied, Askable
        <3> QED BY <1>3, <2>1, <2>3, <3>2
    <2> QED BY <2>2, <2>3
<1> QED BY <1>3, <1>4, <1>5, <1>6, <1>7, <1>8, <1>9

(* What each field of the stores is compared by, when the answer is about another. *)
LEMMA HostsApart ==
    ASSUME InventoryInv, NEW q, NEW d, Applied(q, d), q \in REQS, req[q].st # "free",
           Waiting(q) => req[q].op \notin {"save", "delHost"},
           seen'.hosts = seen.hosts, "hosts" \in dubious => "hosts" \in dubious'
    PROVE  HostsFollow'
<1>1. /\ \A x \in REQS \ {q} : /\ req'[x] = req[x] /\ (Waiting(x)' <=> Waiting(x))
                               /\ Sole(x)' <=> Sole(x)
      /\ ~Waiting(q)' /\ ~Sole(q)' /\ db' = db
    BY AppliedKeeps DEF Applied
<1>2. HostsSure' => HostsSure
    BY <1>1 DEF HostsSure
<1>3. Sole(q) => req[q].op \notin {"save", "delHost"}
    BY DEF Sole
<1> QED BY <1>1, <1>2, <1>3 DEF InventoryInv, Stores, HostsFollow

(* The same for the rows. *)
LEMMA RowsApart ==
    ASSUME InventoryInv, NEW q, NEW d, Applied(q, d), q \in REQS, req[q].st # "free",
           Waiting(q) => req[q].op \notin {"newRow", "delRow"},
           seen'.rows = seen.rows, "rows" \in dubious => "rows" \in dubious'
    PROVE  RowsFollow'
<1>1. /\ \A x \in REQS \ {q} : /\ req'[x] = req[x] /\ (Waiting(x)' <=> Waiting(x))
                               /\ Sole(x)' <=> Sole(x)
      /\ ~Waiting(q)' /\ ~Sole(q)' /\ db' = db
    BY AppliedKeeps DEF Applied
<1>2. RowsSure' => RowsSure
    BY <1>1 DEF RowsSure
<1>3. Sole(q) => req[q].op \notin {"newRow", "delRow"}
    BY DEF Sole
<1> QED BY <1>1, <1>2, <1>3 DEF InventoryInv, Stores, RowsFollow

(* The same for the references. *)
LEMMA RefsApart ==
    ASSUME InventoryInv, NEW q, NEW d, Applied(q, d), q \in REQS, req[q].st # "free",
           \/ "refs" \in dubious'
           \/ /\ Waiting(q) => ~SetsRefs(q)
              /\ Waiting(q) /\ req[q].op = "delRow" => kind # "group"
              /\ seen'.refs = seen.refs
              /\ Column => seen'.hosts \subseteq seen.hosts
              /\ "refs" \notin dubious
    PROVE  RefsFollow' /\ GroupsShown'
<1>1. CASE "refs" \in dubious'
    BY <1>1 DEF RefsFollow, GroupsShown, RefsSure
<1>2. CASE "refs" \notin dubious'
    <2>1. /\ \A x \in REQS \ {q} : /\ req'[x] = req[x] /\ (Waiting(x)' <=> Waiting(x))
                                   /\ (Sole(x)' <=> Sole(x)) /\ (SetsRefs(x)' <=> SetsRefs(x))
          /\ ~Waiting(q)' /\ ~Sole(q)' /\ UNCHANGED <<kind, db>>
        BY AppliedKeeps DEF Applied
    <2>2. RefsSure' => RefsSure
        BY <1>2, <2>1 DEF RefsSure
    <2>3. \A h : Rewritten(h)' <=> Rewritten(h)
        BY <1>2, <2>1 DEF Rewritten, Sole
    <2>4. RefsFollow'
        BY <1>2, <2>1, <2>2, <2>3 DEF InventoryInv, Stores, RefsFollow, Column
    <2>5. kind = "group" /\ (\A x \in REQS : Waiting(x) => req[x].op # "delRow")'
              => \A x \in REQS : Waiting(x) => req[x].op # "delRow"
        BY <1>2, <2>1
    <2>6. GroupsShown'
        BY <1>2, <2>1, <2>2, <2>3, <2>5 DEF InventoryInv, Stores, GroupsShown, Column
    <2> QED BY <2>4, <2>6
<1> QED BY <1>1, <1>2

(* The same, when the store took a true list. *)
LEMMA HostsAsRead ==
    ASSUME InventoryInv, NEW q, NEW d, Applied(q, d), q \in REQS, req[q].st # "free",
           seen'.hosts = db.hosts
    PROVE  HostsFollow'
<1>1. Held' /\ UNCHANGED db
    BY AppliedKeeps DEF Applied
<1>2. \A x \in REQS : Sole(x)' => /\ req'[x].op = "save" => req'[x].h \in db.hosts
                                  /\ req'[x].op = "delHost" => req'[x].h \notin db.hosts
    BY <1>1 DEF Held
<1> QED BY <1>1, <1>2 DEF HostsFollow

(* The same for the rows. *)
LEMMA RowsAsRead ==
    ASSUME InventoryInv, NEW q, NEW d, Applied(q, d), q \in REQS, req[q].st # "free",
           seen'.rows = db.rows
    PROVE  RowsFollow'
<1>1. Held' /\ UNCHANGED db
    BY AppliedKeeps DEF Applied
<1>2. \A x \in REQS : Sole(x)' => /\ req'[x].op = "newRow" => req'[x].r \subseteq db.rows
                                  /\ req'[x].op = "delRow" => req'[x].r \cap db.rows = {}
    BY <1>1 DEF Held
<1> QED BY <1>1, <1>2 DEF RowsFollow

(* The same for the references. *)
LEMMA RefsAsRead ==
    ASSUME InventoryInv, NEW q, NEW d, Applied(q, d), q \in REQS, req[q].st # "free",
           seen'.refs = db.refs
    PROVE  RefsFollow' /\ GroupsShown'
<1>1. UNCHANGED db /\ db.hosts \subseteq HOSTS
    BY DEF Applied, InventoryInv, InventoryTyped, Shape, Tables
<1>2. \A h \in db.hosts : db.refs[h] \subseteq db.rows
    BY <1>1 DEF InventoryInv, Stores, ForeignKeys
<1> QED BY <1>1, <1>2 DEF RefsFollow, GroupsShown

(* What an answer makes of a dialog it is not about, closes, or tells of a failure. *)
FormGoes(g) ==
    \/ form'[g] = form[g]
    \/ /\ ~form'[g].open /\ ~form'[g].sure /\ form'[g].h = NoHost /\ form'[g].had = {}
       /\ form'[g].refs \subseteq born
    \/ FormSame(g)

(* The end of a dialog's function closes it or tells it of the failure. *)
LEMMA FinishedGoes ==
    ASSUME InventoryInv, NEW f, NEW ok, f \in Forms, form' = Finished(f, ok)
    PROVE  form' \in [Forms -> HostDialogs] /\ \A g \in Forms : FormGoes(g)
<1>1. form \in [Forms -> HostDialogs] /\ form[f] \in HostDialogs /\ form[f].refs \subseteq born
    BY DEF InventoryInv, InventoryTyped, Shape, Born, BornForm
<1>2. PICK x : x = IF ok \/ ~form[f].open THEN Shut(f)
                   ELSE [form[f] EXCEPT !.busy = FALSE]
    OBVIOUS
<1>3. form' = [form EXCEPT ![f] = x]
    BY <1>2 DEF Finished
<1>4. CASE x = Shut(f)
    <2>1. x \in HostDialogs /\ ~x.open /\ ~x.sure /\ x.h = NoHost /\ x.had = {}
          /\ x.refs \subseteq born
        BY <1>1, <1>4, ShutTyped
    <2> QED BY <1>1, <1>3, <2>1 DEF FormGoes
<1>5. CASE x = [form[f] EXCEPT !.busy = FALSE]
    <2>1. /\ x \in HostDialogs /\ x.open = form[f].open /\ x.h = form[f].h /\ x.refs = form[f].refs
          /\ x.had = form[f].had /\ x.toggled = form[f].toggled /\ x.sure = form[f].sure
        BY <1>1, <1>5 DEF HostDialogs
    <2> QED BY <1>1, <1>3, <2>1 DEF FormGoes, FormSame
<1> QED BY <1>2, <1>4, <1>5

SureTrue(g) ==
    /\ g = "new" => form[g].refs \subseteq form[g].toggled
    /\ g = "edit" /\ form[g].h \in db.hosts =>
          Differ(form[g].refs, db.refs[form[g].h]) \cap db.rows \subseteq form[g].toggled
    /\ \A x \in REQS : req[x].st # "free" /\ ~Reading(x) => FormFits(form[g], g, req[x])

(* What it makes of a dialog that takes other links. *)
FormTakes(g) ==
    /\ form'[g].open = form[g].open /\ form'[g].h = form[g].h
    /\ form'[g].had = form[g].had /\ form'[g].refs \subseteq born
    /\ g \in {"new", "edit"} /\ form'[g].open /\ form'[g].sure => OnTop(g) /\ SureTrue(g)'

(* What an answered request asks for next: nothing, a list, the host's links. *)
FollowUp(q, d) ==
    \/ d = Unasked
    \/ d.op = "hosts"
    \/ /\ d.op = "links" /\ req[q].op = "save" /\ d.by = req[q].by /\ d.h = req[q].h
       /\ d.refs = req[q].refs /\ d.toggled = req[q].toggled
       /\ d.hasty \/ Promises(q)

(* An answer keeps what the forms and the requests mean. *)
LEMMA AnswerForms ==
    ASSUME InventoryInv, NEW q, NEW d, Applied(q, d), q \in REQS, req[q].st # "free",
           FollowUp(q, d),
           form' \in [Forms -> HostDialogs], \A g \in Forms : FormGoes(g) \/ FormTakes(g)
    PROVE  Edits' /\ (\A f \in Forms : BornForm(form[f])') /\ Intent'
<1>1. /\ \A x \in REQS \ {q} : req'[x] = req[x] /\ (Sole(x)' <=> Sole(x))
      /\ req'[q] = d /\ ~Sole(q)' /\ UNCHANGED <<kind, db, born, drawn>>
    BY AppliedKeeps DEF Applied
<1>2. ASSUME NEW g \in Forms
      PROVE  /\ form'[g].open => form[g].open /\ form'[g].h = form[g].h
             /\ form'[g].h = form[g].h \/ form'[g].h = NoHost
             /\ form'[g].refs \subseteq born /\ form'[g].had \subseteq born
    BY DEF InventoryInv, InventoryTyped, Born, BornForm, FormGoes, FormSame, FormTakes
<1>3. Edits'
    <2>1. form["new"].h = NoHost /\ "new" \in Forms /\ "edit" \in Forms /\ "row" \in Forms
        BY DEF InventoryInv, InventoryTyped, Edits, Forms
    <2>2. ASSUME NEW g \in {"new", "edit"}, form'[g].open, form'[g].sure
          PROVE  OnTop(g)'
        <3>1. g \in Forms
            BY DEF Forms
        <3>2. OnTop(g)
            BY <2>2, <3>1 DEF InventoryInv, InventoryTyped, Edits, FormGoes, FormSame, FormTakes
        <3> QED BY <1>1, <1>2, <2>1, <2>2, <3>1, <3>2 DEF OnTop
    <2> QED BY <1>2, <2>1, <2>2 DEF InventoryInv, InventoryTyped, Edits
<1>4. ASSUME NEW f \in Forms PROVE BornForm(form[f])'
    <2>1. BornForm(form[f])
        BY DEF InventoryInv, InventoryTyped, Born
    <2> QED BY <1>1, <1>2, <2>1 DEF BornForm
<1>6. /\ d.op \notin {"rows", "save", "move"}
      /\ d.op \in Reads \/ d.st = "free" \/ d.op = "links"
    BY DEF FollowUp, Unasked, Reads
<1>7. FormTrue'
    <2> SUFFICES ASSUME NEW g \in {"new", "edit"}, form'[g].open, form'[g].sure
                 PROVE  SureTrue(g)'
        BY DEF FormTrue, SureTrue
    <2>1. g \in Forms
        BY DEF Forms
    <2>2. CASE FormTakes(g)
        BY <2>2 DEF FormTakes
    <2>3. CASE FormGoes(g)
        <3>1. /\ form[g].open /\ form[g].sure /\ form'[g].h = form[g].h
              /\ form'[g].refs = form[g].refs /\ form'[g].toggled = form[g].toggled
            BY <2>3 DEF FormGoes, FormSame
        <3>2. SureTrue(g)
            BY <3>1 DEF InventoryInv, Intent, FormTrue, SureTrue
        <3>3. ASSUME NEW x \in REQS, req'[x].st # "free", ~Reading(x)'
              PROVE  FormFits(form[g], g, req'[x])
            <4>1. CASE x # q
                <5>1. FormFits(form[g], g, req[x])
                    BY <1>1, <3>2, <3>3, <4>1 DEF SureTrue, Reading
                <5> QED BY <1>1, <4>1, <5>1
            <4>2. CASE x = q
                <5>1. d.op = "links" /\ req[q].op = "save"
                    BY <1>1, <1>6, <3>3, <4>2 DEF FollowUp, Reading, Reads, Unasked
                <5>2. FormFits(form[g], g, req[q])
                    BY <3>2, <5>1 DEF SureTrue, Reading
                <5>3. d.by = req[q].by /\ d.h = req[q].h /\ d.refs = req[q].refs
                    BY <5>1 DEF FollowUp, Unasked
                <5> QED BY <1>1, <4>2, <5>1, <5>2, <5>3 DEF FormFits
            <4> QED BY <4>1, <4>2
        <3>4. ASSUME NEW x \in REQS, req'[x].st # "free", ~Reading(x)'
              PROVE  FormFits(form'[g], g, req'[x])
            <4>1. FormFits(form[g], g, req'[x])
                BY <3>3, <3>4
            <4> QED BY <3>1, <4>1 DEF FormFits
        <3> QED BY <1>1, <3>1, <3>2, <3>4 DEF SureTrue
    <2> QED BY <2>1, <2>2, <2>3
<1>8. AskedTrue'
    <2> SUFFICES ASSUME NEW x \in REQS, Promises(x)'
                 PROVE  RequestFits(req[x])'
        BY DEF AskedTrue
    <2>1. CASE x # q
        <3>1. Promises(x)
            BY <1>1, <2>1 DEF Promises, Column
        <3> QED BY <1>1, <2>1, <3>1 DEF InventoryInv, Intent, AskedTrue, RequestFits
    <2>2. CASE x = q
        <3>1. d.op = "links" /\ ~d.hasty
            BY <1>1, <1>6, <2>2 DEF Promises
        <3>2. /\ d.h = req[q].h /\ d.refs = req[q].refs /\ d.toggled = req[q].toggled
              /\ Promises(q)
            BY <3>1 DEF FollowUp, Unasked
        <3>3. RequestFits(req[q])
            BY <3>2 DEF InventoryInv, Intent, AskedTrue
        <3> QED BY <1>1, <2>2, <3>2, <3>3 DEF RequestFits
    <2> QED BY <2>1, <2>2
<1>9. OfThisOpening'
    <2> SUFFICES ASSUME NEW y \in REQS, NEW g \in {"new", "edit"}, req'[y].op = "rows",
                        req'[y].by = g, form'[g].open, ~req'[y].late
                 PROVE  req'[y].h = form'[g].h
        BY DEF OfThisOpening
    <2>1. y # q /\ g \in Forms
        BY <1>1, <1>6 DEF Forms
    <2> QED BY <1>1, <1>2, <2>1 DEF InventoryInv, Intent, OfThisOpening
<1> QED BY <1>3, <1>4, <1>7, <1>8, <1>9 DEF Intent

(* An answer keeps the invariant if it keeps the types of the stores and what each
   field of them is compared by. *)
LEMMA AnswerInv ==
    ASSUME InventoryInv, NEW q, NEW d, Applied(q, d), q \in REQS, req[q].st # "free",
           FollowUp(q, d),
           form' \in [Forms -> HostDialogs], \A g \in Forms : FormGoes(g) \/ FormTakes(g),
           seen' \in Tables, BornTable(seen)', dubious' \in SUBSET Cells,
           HostsFollow', RowsFollow', RefsFollow', GroupsShown'
    PROVE  InventoryInv'
<1>1. /\ req' \in [REQS -> Requests]
      /\ Stages' /\ (\A x \in REQS : BornRequest(req[x])')
      /\ ForeignKeys' /\ OneSole' /\ Held' /\ ReadTrue'
    BY AppliedKeeps
<1>2. Edits' /\ (\A f \in Forms : BornForm(form[f])') /\ Intent'
    BY AnswerForms
<1>3. Shape'
    BY <1>1 DEF InventoryInv, InventoryTyped, Shape, Applied
<1>4. Born'
    BY <1>1, <1>2 DEF InventoryInv, InventoryTyped, Born, BornTable, Applied
<1> QED BY <1>1, <1>2, <1>3, <1>4 DEF InventoryInv, InventoryTyped, Stores

(* The refresh of the hosts that follows a move or the deletion of a group. *)
LEMMA HostsRequest ==
    ASSUME NEW d, d = Request("hosts", "none", NoHost, {}, {})
    PROVE  Askable(d) /\ d.op = "hosts"
<1>1. Made(d, "hosts", "none", NoHost, {}, {}, {}, FALSE)
    <2>1. "hosts" \in Asks /\ "none" \in Bys /\ NoHost \in HostIds /\ {} \in SUBSET ROWS
        BY Terms
    <2> QED BY <2>1, RequestMade
<1> QED BY <1>1, MadeAskable DEF Made

(* An answer that is not about a dialog. *)
LEMMA FormStays ==
    ASSUME InventoryInv, UNCHANGED form
    PROVE  form' \in [Forms -> HostDialogs] /\ \A g \in Forms : FormGoes(g)
BY DEF InventoryInv, InventoryTyped, Shape, FormGoes

(* An answer that nothing follows. *)
LEMMA Freed ==
    ASSUME NEW q, req' = [req EXCEPT ![q] = Unasked], UNCHANGED <<kind, db, born, drawn>>
    PROVE  Applied(q, Unasked) /\ FollowUp(q, Unasked)
BY DEF Applied, FollowUp

(* Before the answer to the last command is applied, it is the last. *)
LEMMA OnlySole == ASSUME InventoryInv, NEW q \in REQS, Sole(q), NEW x \in REQS, Sole(x) PROVE x = q
BY DEF InventoryInv, Stores, OneSole

(* The store drops the deleted host. *)
LEMMA HostDeletedStep == ASSUME InventoryInv, NEW q \in REQS, HostDeleted(q) PROVE InventoryInv'
<1>1. /\ req[q].st = "ok" /\ req[q].op = "delHost" /\ Waiting(q) /\ ~SetsRefs(q)
      /\ seen \in Tables /\ BornTable(seen) /\ dubious \in SUBSET Cells
    BY DEF HostDeleted, Waiting, Reading, SetsRefs, InventoryInv, InventoryTyped, Shape, Born
<1>2. /\ seen' \in Tables /\ seen'.hosts = seen.hosts \ {req[q].h}
      /\ seen'.rows = seen.rows /\ seen'.refs = seen.refs
    BY <1>1 DEF HostDeleted, Tables
<1>3. Applied(q, Unasked) /\ FollowUp(q, Unasked) /\ UNCHANGED <<kind, db, born, form>>
    BY Freed DEF HostDeleted
<1>4. dubious' = IF req[q].stale THEN dubious \cup {"hosts"} ELSE dubious
    BY DEF HostDeleted, Wrote
<1>5. HostsFollow'
    <2> SUFFICES ASSUME HostsSure' PROVE HostsFollow'
        BY DEF HostsFollow
    <2>1. Sole(q) /\ "hosts" \notin dubious
        BY <1>1, <1>4 DEF HostsSure, Sole
    <2>2. /\ \A x \in REQS \ {q} : /\ req'[x] = req[x] /\ (Waiting(x)' <=> Waiting(x))
                                   /\ (Sole(x)' <=> Sole(x))
          /\ ~Waiting(q)' /\ ~Sole(q)'
        BY <1>1, <1>3, AppliedKeeps
    <2>3. HostsSure
        BY <2>1, <2>2 DEF HostsSure, Sole
    <2>4. \A x \in REQS : ~Sole(x)'
        BY <2>1, <2>2, OnlySole
    <2>5. \A h \in HOSTS : h \in db.hosts <=> h \in seen.hosts /\ h # req[q].h
        BY <1>1, <2>1, <2>3, OnlySole DEF InventoryInv, Stores, HostsFollow
    <2> QED BY <1>2, <1>3, <2>4, <2>5 DEF HostsFollow
<1>6. RowsFollow'
    BY <1>1, <1>2, <1>3, <1>4, RowsApart
<1>7. RefsFollow' /\ GroupsShown'
    <2>1. seen'.hosts \subseteq seen.hosts
        BY <1>2
    <2> QED BY <1>1, <1>2, <1>3, <1>4, <2>1, RefsApart
<1>8. BornTable(seen)'
    BY <1>1, <1>2, <1>3 DEF BornTable
<1>9. form' \in [Forms -> HostDialogs] /\ \A g \in Forms : FormGoes(g)
    BY <1>3, FormStays
<1> QED BY <1>1, <1>2, <1>3, <1>4, <1>5, <1>6, <1>7, <1>8, <1>9, AnswerInv DEF Cells

(* The store drops the deleted row; of a group the hosts are fetched again. *)
LEMMA RowDeletedStep == ASSUME InventoryInv, NEW q \in REQS, RowDeleted(q) PROVE InventoryInv'
<1>1. /\ req[q].st = "ok" /\ req[q].op = "delRow" /\ Waiting(q) /\ ~SetsRefs(q)
      /\ seen \in Tables /\ BornTable(seen) /\ dubious \in SUBSET Cells
    BY DEF RowDeleted, Waiting, Reading, SetsRefs, InventoryInv, InventoryTyped, Shape, Born
<1>2. /\ seen' \in Tables /\ seen'.rows = seen.rows \ req[q].r
      /\ seen'.hosts = seen.hosts /\ seen'.refs = seen.refs
    BY <1>1 DEF RowDeleted, Tables
<1>3. PICK d : d = IF kind = "group" THEN Request("hosts", "none", NoHost, {}, {}) ELSE Unasked
    OBVIOUS
<1>4. Applied(q, d) /\ FollowUp(q, d) /\ UNCHANGED <<kind, db, born, form>>
    <2>1. d = Unasked \/ (Askable(d) /\ d.op = "hosts")
        BY <1>3, HostsRequest
    <2> QED BY <1>3, <2>1 DEF RowDeleted, Applied, FollowUp
<1>5. /\ dubious' \in SUBSET Cells /\ dubious \subseteq dubious'
      /\ req[q].stale => "rows" \in dubious'
      /\ kind = "group" => "refs" \in dubious'
      /\ "hosts" \in dubious' => "hosts" \in dubious
      /\ kind # "group" /\ "refs" \in dubious' => "refs" \in dubious
    BY <1>1 DEF RowDeleted, Cells
<1>6. RowsFollow'
    <2> SUFFICES ASSUME RowsSure' PROVE RowsFollow'
        BY DEF RowsFollow
    <2>1. Sole(q) /\ "rows" \notin dubious
        BY <1>1, <1>5 DEF RowsSure, Sole
    <2>2. /\ \A x \in REQS \ {q} : /\ req'[x] = req[x] /\ (Waiting(x)' <=> Waiting(x))
                                   /\ (Sole(x)' <=> Sole(x))
          /\ ~Waiting(q)' /\ ~Sole(q)'
        BY <1>1, <1>4, AppliedKeeps
    <2>3. RowsSure
        BY <2>1, <2>2 DEF RowsSure, Sole
    <2>4. \A x \in REQS : ~Sole(x)'
        BY <2>1, <2>2, OnlySole
    <2>5. \A r \in ROWS : r \in db.rows <=> r \in seen.rows /\ r \notin req[q].r
        BY <1>1, <2>1, <2>3, OnlySole DEF InventoryInv, Stores, RowsFollow
    <2> QED BY <1>2, <1>4, <2>4, <2>5 DEF RowsFollow
<1>7. HostsFollow'
    BY <1>1, <1>2, <1>4, <1>5, HostsApart
<1>8. RefsFollow' /\ GroupsShown'
    <2>1. seen'.hosts \subseteq seen.hosts
        BY <1>2
    <2>2. "refs" \in dubious' \/ (kind # "group" /\ "refs" \notin dubious)
        BY <1>5
    <2> QED BY <1>1, <1>2, <1>4, <2>1, <2>2, RefsApart
<1>9. BornTable(seen)'
    BY <1>1, <1>2, <1>4 DEF BornTable
<1>10. form' \in [Forms -> HostDialogs] /\ \A g \in Forms : FormGoes(g)
    BY <1>4, FormStays
<1> QED BY <1>1, <1>2, <1>4, <1>5, <1>6, <1>7, <1>8, <1>9, <1>10, AnswerInv

(* The hosts are fetched again. *)
LEMMA MovedStep == ASSUME InventoryInv, NEW q \in REQS, Moved(q) PROVE InventoryInv'
<1>1. /\ req[q].st = "ok" /\ req[q].op = "move" /\ seen \in Tables /\ BornTable(seen)
      /\ dubious \in SUBSET Cells
    BY DEF Moved, InventoryInv, InventoryTyped, Shape, Born
<1>2. PICK d : d = Request("hosts", "none", NoHost, {}, {})
    OBVIOUS
<1>3. Applied(q, d) /\ FollowUp(q, d) /\ UNCHANGED <<kind, db, born, form, seen>>
    BY <1>2, HostsRequest DEF Moved, Applied, FollowUp
<1>4. /\ dubious' \in SUBSET Cells /\ "refs" \in dubious'
      /\ "hosts" \in dubious => "hosts" \in dubious'
      /\ "rows" \in dubious => "rows" \in dubious'
    BY <1>1 DEF Moved, Cells
<1>5. HostsFollow'
    BY <1>1, <1>3, <1>4, HostsApart
<1>6. RowsFollow'
    BY <1>1, <1>3, <1>4, RowsApart
<1>7. RefsFollow' /\ GroupsShown'
    BY <1>1, <1>3, <1>4, RefsApart
<1>8. BornTable(seen)' /\ seen' \in Tables
    BY <1>1, <1>3 DEF BornTable
<1>9. form' \in [Forms -> HostDialogs] /\ \A g \in Forms : FormGoes(g)
    BY <1>3, FormStays
<1> QED BY <1>1, <1>3, <1>4, <1>5, <1>6, <1>7, <1>8, <1>9, AnswerInv

(* The store takes the links, which are the database's if the answer is the last. *)
LEMMA LinksSavedStep == ASSUME InventoryInv, NEW q \in REQS, LinksSaved(q) PROVE InventoryInv'
<1>1. /\ req[q].st = "ok" /\ req[q].op = "links" /\ Waiting(q) /\ SetsRefs(q)
      /\ req[q].by \in Forms /\ req[q].h \in HOSTS /\ req[q] \in Requests
      /\ req[q].refs \in SUBSET ROWS /\ req[q].refs \subseteq born /\ req[q].h \in born
      /\ seen \in Tables /\ BornTable(seen) /\ dubious \in SUBSET Cells
    <2>1. StageOf(req[q]) /\ BornRequest(req[q]) /\ req[q] \in Requests
        BY DEF InventoryInv, InventoryTyped, Stages, Born, Shape
    <2>2. req[q].h \in HOSTS
        BY <2>1 DEF LinksSaved, StageOf
    <2>3. req[q].h # NoHost
        BY <2>2, InventoryAssumption
    <2> QED BY <2>1, <2>2, <2>3
           DEF LinksSaved, Waiting, Reading, SetsRefs, InventoryInv, InventoryTyped, Shape, Born,
               StageOf, BornRequest, Forms, Requests
<1>2. PICK h : h = req[q].h
    OBVIOUS
<1>3. PICK links : links = req[q].refs
    OBVIOUS
<1>4. /\ seen' \in Tables /\ seen'.rows = seen.rows /\ seen'.hosts = seen.hosts
      /\ seen'.refs[h] = links /\ \A g \in HOSTS : g # h => seen'.refs[g] = seen.refs[g]
    <2>1. seen' = [seen EXCEPT !.refs[h] = links]
        BY <1>2, <1>3 DEF LinksSaved
    <2> QED BY <1>1, <1>2, <1>3, <2>1 DEF Tables
<1>5. Applied(q, Unasked) /\ FollowUp(q, Unasked) /\ UNCHANGED <<kind, db, born>>
    BY Freed DEF LinksSaved
<1>6. dubious' = IF req[q].stale THEN dubious \cup {"refs"} ELSE dubious
    BY DEF LinksSaved, Wrote
<1>7. /\ \A x \in REQS \ {q} : /\ req'[x] = req[x] /\ (Waiting(x)' <=> Waiting(x))
                               /\ (Sole(x)' <=> Sole(x)) /\ (SetsRefs(x)' <=> SetsRefs(x))
      /\ ~Waiting(q)' /\ ~Sole(q)'
    BY <1>1, <1>5, AppliedKeeps
<1>8. ASSUME RefsSure'
      PROVE  /\ \A g \in db.hosts : g # h =>
                   \/ Column /\ g \notin seen.hosts
                   \/ seen.refs[g] \cap db.rows = db.refs[g]
             /\ h \in db.hosts => links = db.refs[h] /\ links \subseteq db.rows
             /\ kind = "group" /\ (\A x \in REQS : Waiting(x)' => req'[x].op # "delRow") =>
                   \A g \in db.hosts : g # h =>
                       g \notin seen.hosts \/ seen.refs[g] \subseteq db.rows
    <2>1. Sole(q) /\ "refs" \notin dubious
        BY <1>1, <1>6, <1>8 DEF RefsSure, Sole
    <2>2. RefsSure
        BY <1>7, <1>8, <2>1 DEF RefsSure, Sole
    <2>3. \A g : g # h => ~Rewritten(g)
        BY <1>2, <2>1, OnlySole DEF Rewritten
    <2>4. links = db.refs[h]
        BY <1>1, <1>2, <1>3, <2>1 DEF InventoryInv, Stores, Held
    <2>5. h \in db.hosts => links \subseteq db.rows
        BY <1>1, <1>2, <2>4 DEF InventoryInv, Stores, ForeignKeys
    <2>6. (\A x \in REQS : Waiting(x)' => req'[x].op # "delRow")
             => \A x \in REQS : Waiting(x) => req[x].op # "delRow"
        BY <1>1, <1>7
    <2> QED BY <2>2, <2>3, <2>4, <2>5, <2>6 DEF InventoryInv, Stores, RefsFollow, GroupsShown
<1>9. db.hosts \subseteq HOSTS
    BY DEF InventoryInv, InventoryTyped, Shape, Tables
<1>10. RefsFollow'
    <2> SUFFICES ASSUME RefsSure', NEW g \in db.hosts
                 PROVE  \/ Column /\ g \notin seen.hosts
                        \/ seen'.refs[g] \cap db.rows = db.refs[g]
        BY <1>4, <1>5 DEF RefsFollow, Column
    <2> QED BY <1>4, <1>8, <1>9
<1>11. GroupsShown'
    <2> SUFFICES ASSUME RefsSure', NEW g \in db.hosts, kind = "group",
                        \A x \in REQS : Waiting(x)' => req'[x].op # "delRow"
                 PROVE  g \notin seen.hosts \/ seen'.refs[g] \subseteq db.rows
        BY <1>4, <1>5 DEF GroupsShown
    <2> QED BY <1>4, <1>8, <1>9
<1>12. HostsFollow' /\ RowsFollow'
    BY <1>1, <1>4, <1>5, <1>6, HostsApart, RowsApart
<1>13. BornTable(seen)'
    BY <1>1, <1>2, <1>3, <1>4, <1>5 DEF BornTable
<1>14. form' \in [Forms -> HostDialogs] /\ \A g \in Forms : FormGoes(g)
    <2>1. PICK f : f = req[q].by
        OBVIOUS
    <2>2. form' = Finished(f, TRUE) /\ f \in Forms
        BY <1>1, <2>1 DEF LinksSaved, Finished
    <2> QED BY <2>2, FinishedGoes
<1> QED BY <1>1, <1>4, <1>5, <1>6, <1>10, <1>11, <1>12, <1>13, <1>14, AnswerInv DEF Cells

(* A dialog's links are replaced, and what is known of them. *)
Took(f, links, t, s) ==
    /\ form' \in [Forms -> HostDialogs] /\ \A g \in Forms \ {f} : form'[g] = form[g]
    /\ form'[f].refs = links /\ form'[f].toggled = t /\ form'[f].sure = s
    /\ form'[f].open = form[f].open /\ form'[f].h = form[f].h /\ form'[f].had = form[f].had

(* A dialog with other links, and sure of them or not. *)
LEMMA FormTook ==
    ASSUME NEW f, NEW links, NEW t, NEW s, form \in [Forms -> HostDialogs], f \in Forms,
           links \in SUBSET ROWS, t \in SUBSET ROWS, s \in BOOLEAN,
           form' = [form EXCEPT ![f].refs = links, ![f].toggled = t, ![f].sure = s]
    PROVE  Took(f, links, t, s)
<1>1. PICK x : x = [form[f] EXCEPT !.refs = links, !.toggled = t, !.sure = s]
    OBVIOUS
<1>2. /\ x \in HostDialogs /\ x.refs = links /\ x.toggled = t /\ x.sure = s
      /\ x.open = form[f].open /\ x.h = form[f].h /\ x.had = form[f].had
    BY <1>1 DEF HostDialogs
<1>3. PICK y : y = [form[f] EXCEPT !.refs = links, !.toggled = t]
    OBVIOUS
<1>4. PICK form2 : form2 = [form EXCEPT ![f].refs = links, ![f].toggled = t]
    OBVIOUS
<1>5. form2 = [g \in Forms |-> IF g = f THEN y ELSE form[g]]
    BY <1>3, <1>4
<1>6. form' = [form2 EXCEPT ![f] = x]
    <2>1. form' = [form2 EXCEPT ![f].sure = s]
        BY <1>4
    <2>2. x = [form2[f] EXCEPT !.sure = s]
        BY <1>1, <1>3, <1>5
    <2> QED BY <2>1, <2>2
<1>7. form' = [g \in Forms |-> IF g = f THEN x ELSE form[g]]
    BY <1>5, <1>6
<1>8. form'[f] = x /\ \A g \in Forms \ {f} : form'[g] = form[g]
    BY <1>7
<1>9. form' \in [Forms -> HostDialogs]
    <2>1. \A g \in Forms : (IF g = f THEN x ELSE form[g]) \in HostDialogs
        BY <1>2
    <2> QED BY <1>7, <2>1
<1> QED BY <1>2, <1>8, <1>9 DEF Took

(* What a picker makes of its form when the row it created is there. *)
LEMMA PickerTakes ==
    ASSUME InventoryInv, NEW q \in REQS, NEW f, req[q].st = "ok", req[q].op = "newRow",
           Applied(q, Unasked), f = req[q].by, f \in {"new", "edit"}, NEW links, NEW t, NEW s \in BOOLEAN,
           links = req[q].refs \cup req[q].r,
           t = IF form[f].open THEN form[f].toggled \cup req[q].r ELSE {},
           s => form[f].sure /\ form[f].refs = req[q].refs,
           form' = [form EXCEPT ![f].refs = links, ![f].toggled = t, ![f].sure = s]
    PROVE  form' \in [Forms -> HostDialogs] /\ \A g \in Forms : FormGoes(g) \/ FormTakes(g)
<1>1. /\ f \in {"new", "edit"} /\ f \in Forms /\ req[q] \in Requests
      /\ req[q].r \subseteq ROWS /\ req[q].refs \subseteq ROWS
      /\ req[q].r \subseteq born /\ req[q].refs \subseteq born
      /\ form \in [Forms -> HostDialogs] /\ form[f] \in HostDialogs
    <2>1. StageOf(req[q]) /\ BornRequest(req[q]) /\ req[q] \in Requests
        BY DEF InventoryInv, InventoryTyped, Stages, Born, Shape
    <2> QED BY <2>1 DEF StageOf, BornRequest, Requests, Forms, InventoryInv, InventoryTyped, Shape
<1>2. t \in SUBSET ROWS /\ links \in SUBSET ROWS /\ links \subseteq born
    BY <1>1 DEF HostDialogs
<1>3. Took(f, links, t, s)
    BY <1>1, <1>2, FormTook
<1>4. /\ form' \in [Forms -> HostDialogs] /\ \A g \in Forms \ {f} : form'[g] = form[g]
      /\ form'[f].refs = links /\ form'[f].toggled = t /\ form'[f].sure = s
      /\ form'[f].open = form[f].open /\ form'[f].h = form[f].h /\ form'[f].had = form[f].had
    BY <1>3 DEF Took
<1>5. ASSUME form'[f].open, form'[f].sure PROVE OnTop(f) /\ SureTrue(f)'
    <2>1. form[f].open /\ form[f].sure /\ links = form[f].refs \cup req[q].r
          /\ t = form[f].toggled \cup req[q].r
        BY <1>4, <1>5
    <2>2. /\ f = "new" => form[f].refs \subseteq form[f].toggled
          /\ f = "edit" /\ form[f].h \in db.hosts =>
                Differ(form[f].refs, db.refs[form[f].h]) \cap db.rows \subseteq form[f].toggled
          /\ \A y \in REQS : req[y].st # "free" /\ ~Reading(y) => FormFits(form[f], f, req[y])
        BY <1>1, <2>1 DEF InventoryInv, Intent, FormTrue
    <2>3. ASSUME NEW y \in REQS, req'[y].st # "free", ~Reading(y)'
          PROVE  FormFits(form'[f], f, req'[y])
        <3>1. y # q
            BY <2>3, AppliedKeeps DEF Unasked
        <3>2. req'[y] = req[y]
            BY <3>1, AppliedKeeps
        <3>3. FormFits(form[f], f, req[y])
            BY <2>2, <2>3, <3>2 DEF Reading
        <3> QED BY <1>4, <2>1, <3>2, <3>3 DEF FormFits, Differ
    <2>4. UNCHANGED <<kind, db, born>>
        BY DEF Applied
    <2>5. OnTop(f)
        BY <1>1, <2>1 DEF InventoryInv, InventoryTyped, Edits
    <2> QED BY <1>4, <2>1, <2>2, <2>3, <2>4, <2>5 DEF SureTrue, Differ
<1>6. FormTakes(f)
    BY <1>2, <1>4, <1>5 DEF FormTakes
<1> QED BY <1>4, <1>6 DEF FormGoes

(* The store takes the created row. *)
LEMMA RowCreatedStep == ASSUME InventoryInv, NEW q \in REQS, RowCreated(q) PROVE InventoryInv'
<1>1. /\ req[q].st = "ok" /\ req[q].op = "newRow" /\ Waiting(q) /\ ~SetsRefs(q)
      /\ req[q].by \in Forms \cup {"none"} /\ req[q].r \subseteq ROWS /\ req[q].r \subseteq born
      /\ seen \in Tables /\ BornTable(seen) /\ dubious \in SUBSET Cells
    <2>1. StageOf(req[q]) /\ BornRequest(req[q]) /\ req[q] \in Requests
        BY DEF InventoryInv, InventoryTyped, Stages, Born, Shape
    <2> QED BY <2>1
           DEF RowCreated, Waiting, Reading, SetsRefs, InventoryInv, InventoryTyped, Shape, Born,
               StageOf, BornRequest, Requests, Forms
<1>2. /\ seen' \in Tables /\ seen'.rows = seen.rows \cup req[q].r
      /\ seen'.hosts = seen.hosts /\ seen'.refs = seen.refs
    BY <1>1 DEF RowCreated, Tables
<1>3. Applied(q, Unasked) /\ FollowUp(q, Unasked) /\ UNCHANGED <<kind, db, born>>
    BY Freed DEF RowCreated
<1>4. dubious' = IF req[q].stale THEN dubious \cup {"rows"} ELSE dubious
    BY DEF RowCreated, Wrote
<1>5. RowsFollow'
    <2> SUFFICES ASSUME RowsSure' PROVE RowsFollow'
        BY DEF RowsFollow
    <2>1. Sole(q) /\ "rows" \notin dubious
        BY <1>1, <1>4 DEF RowsSure, Sole
    <2>2. /\ \A x \in REQS \ {q} : /\ req'[x] = req[x] /\ (Waiting(x)' <=> Waiting(x))
                                   /\ (Sole(x)' <=> Sole(x))
          /\ ~Waiting(q)' /\ ~Sole(q)'
        BY <1>1, <1>3, AppliedKeeps
    <2>3. RowsSure
        BY <2>1, <2>2 DEF RowsSure, Sole
    <2>4. \A x \in REQS : ~Sole(x)'
        BY <2>1, <2>2, OnlySole
    <2>5. \A r \in ROWS : r \in db.rows <=> r \in seen.rows \/ r \in req[q].r
        BY <1>1, <2>1, <2>3, OnlySole DEF InventoryInv, Stores, RowsFollow
    <2> QED BY <1>2, <1>3, <2>4, <2>5 DEF RowsFollow
<1>6. HostsFollow'
    BY <1>1, <1>2, <1>3, <1>4, HostsApart
<1>7. RefsFollow' /\ GroupsShown'
    <2>1. seen'.hosts \subseteq seen.hosts
        BY <1>2
    <2> QED BY <1>1, <1>2, <1>3, <1>4, <2>1, RefsApart
<1>8. BornTable(seen)'
    BY <1>1, <1>2, <1>3 DEF BornTable
<1>9. form' \in [Forms -> HostDialogs] /\ \A g \in Forms : FormGoes(g) \/ FormTakes(g)
    <2>1. PICK f : f = req[q].by
        OBVIOUS
    <2>2. CASE f = "row"
        <3>1. form' = Finished(f, TRUE) /\ f \in Forms
            BY <1>1, <2>1, <2>2 DEF RowCreated, Forms
        <3> QED BY <3>1, FinishedGoes
    <2>4. CASE f = "none"
        <3>1. form' = form
            BY <2>1, <2>4 DEF RowCreated
        <3> QED BY <3>1, FormStays
    <2>3. CASE f \in {"new", "edit"}
        <3> DEFINE s == form[f].sure /\ ~req[q].late /\ form[f].refs = req[q].refs
        <3>1. PICK links : links = req[q].refs \cup req[q].r
            OBVIOUS
        <3>2. PICK t : t = IF form[f].open THEN form[f].toggled \cup req[q].r ELSE {}
            OBVIOUS
        <3>3. form' = [form EXCEPT ![f].refs = links, ![f].toggled = t, ![f].sure = s]
            BY <2>1, <2>3, <3>1, <3>2 DEF RowCreated
        <3>4. s \in BOOLEAN /\ (s => form[f].sure /\ form[f].refs = req[q].refs)
            OBVIOUS
        <3> HIDE DEF s
        <3> QED BY <1>1, <1>3, <2>1, <2>3, <3>1, <3>2, <3>3, <3>4, PickerTakes
    <2> QED BY <1>1, <2>1, <2>2, <2>3, <2>4 DEF Forms
<1> QED BY <1>1, <1>2, <1>3, <1>4, <1>5, <1>6, <1>7, <1>8, <1>9, AnswerInv DEF Cells

(* The links a saved host still has to be given. *)
LEMMA LinksAskable ==
    ASSUME InventoryInv, NEW q \in REQS, req[q].st = "ok", req[q].op = "save", ~Column, NEW d,
           d = [req[q] EXCEPT !.st = "asked", !.op = "links", !.r = {}, !.stale = FALSE,
                              !.hasty = @ \/ req[q].stale]
    PROVE  Askable(d) /\ FollowUp(q, d)
<1> DEFINE b == req[q].hasty \/ req[q].stale
<1>1. req[q] \in Requests /\ StageOf(req[q]) /\ BornRequest(req[q])
    BY DEF InventoryInv, InventoryTyped, Shape, Stages, Born
<1>2. b \in BOOLEAN
    BY <1>1 DEF Requests
<1>3. b \/ Promises(q)
    BY DEF Promises, Sole, Waiting, Reading
<1>4. d = [req[q] EXCEPT !.st = "asked", !.op = "links", !.r = {}, !.stale = FALSE, !.hasty = b]
    OBVIOUS
<1> HIDE DEF b
<1>5. /\ d \in Requests /\ d.st = "asked" /\ d.op = "links" /\ d.r = {} /\ d.stale = FALSE
      /\ d.hasty = b /\ d.by = req[q].by /\ d.h = req[q].h /\ d.refs = req[q].refs
      /\ d.parts = req[q].parts /\ d.got = req[q].got /\ d.toggled = req[q].toggled
    BY <1>1, <1>2, <1>4 DEF Requests
<1>6. StageOf(d)
    BY <1>1, <1>5 DEF StageOf, Reads
<1>7. BornRequest(d)
    BY <1>1, <1>5 DEF BornRequest
<1> QED BY <1>3, <1>5, <1>6, <1>7 DEF Askable, FollowUp, Reads

(* The store takes the host, and its links if they are a column. *)
LEMMA SavedStep == ASSUME InventoryInv, NEW q \in REQS, Saved(q) PROVE InventoryInv'
<1>1. /\ req[q].st = "ok" /\ req[q].op = "save" /\ Waiting(q) /\ (Column => SetsRefs(q))
      /\ ~Column => ~SetsRefs(q)
      /\ req[q].by \in Forms /\ req[q].h \in HOSTS
      /\ req[q].refs \in SUBSET ROWS /\ req[q].refs \subseteq born /\ req[q].h \in born
      /\ seen \in Tables /\ BornTable(seen) /\ dubious \in SUBSET Cells
    <2>1. StageOf(req[q]) /\ BornRequest(req[q]) /\ req[q] \in Requests
        BY DEF InventoryInv, InventoryTyped, Stages, Born, Shape
    <2>2. req[q].h \in HOSTS
        BY <2>1 DEF Saved, StageOf
    <2>3. req[q].h # NoHost
        BY <2>2, InventoryAssumption
    <2> QED BY <2>1, <2>2, <2>3
           DEF Saved, Waiting, Reading, SetsRefs, InventoryInv, InventoryTyped, Shape, Born,
               StageOf, BornRequest, Forms, Requests
<1>2. PICK h : h = req[q].h
    OBVIOUS
<1>3. PICK links : links = IF Column THEN req[q].refs ELSE seen.refs[h]
    OBVIOUS
<1>4. links \in SUBSET ROWS /\ links \subseteq born
    BY <1>1, <1>2, <1>3 DEF Tables, BornTable
<1>5. /\ seen' \in Tables /\ seen'.rows = seen.rows
      /\ h \in seen.hosts \/ req[q].r # {} =>
            /\ seen'.hosts = seen.hosts \cup {h} /\ seen'.refs[h] = links
            /\ \A g \in HOSTS : g # h => seen'.refs[g] = seen.refs[g]
      /\ ~(h \in seen.hosts \/ req[q].r # {}) => seen' = seen
    <2>1. seen' = IF ~(h \in seen.hosts \/ req[q].r # {}) THEN seen
                  ELSE [seen EXCEPT !.hosts = @ \cup {h}, !.refs[h] = links]
        BY <1>2, <1>3 DEF Saved
    <2> QED BY <1>1, <1>2, <1>4, <2>1 DEF Tables
<1>6. PICK d : d = IF Column THEN Unasked
                   ELSE [req[q] EXCEPT !.st = "asked", !.op = "links", !.r = {}, !.stale = FALSE,
                                       !.hasty = @ \/ req[q].stale]
    OBVIOUS
<1>7. Applied(q, d) /\ FollowUp(q, d) /\ UNCHANGED <<kind, db, born>>
    <2>1. CASE Column
        <3>1. req' = [req EXCEPT ![q] = Unasked] /\ d = Unasked /\ UNCHANGED <<kind, db, born, drawn>>
            BY <1>6, <2>1 DEF Saved
        <3> QED BY <3>1, Freed
    <2>2. CASE ~Column
        <3>1. d = [req[q] EXCEPT !.st = "asked", !.op = "links", !.r = {}, !.stale = FALSE,
                                 !.hasty = @ \/ req[q].stale]
            BY <1>6, <2>2
        <3>2. Askable(d) /\ FollowUp(q, d)
            BY <1>1, <2>2, <3>1, LinksAskable
        <3>3. req' = [req EXCEPT ![q] = d] /\ UNCHANGED <<kind, db, born, drawn>>
            BY <2>2, <3>1 DEF Saved
        <3> QED BY <3>2, <3>3 DEF Applied
    <2> QED BY <2>1, <2>2
<1>8. /\ dubious' \in SUBSET Cells /\ dubious \subseteq dubious'
      /\ req[q].stale => "hosts" \in dubious' /\ (Column => "refs" \in dubious')
      /\ "rows" \in dubious' => "rows" \in dubious
      /\ ~Column /\ "refs" \in dubious' => "refs" \in dubious
    BY <1>1 DEF Saved, Wrote, Cells
<1>9. /\ \A x \in REQS \ {q} : /\ req'[x] = req[x] /\ (Waiting(x)' <=> Waiting(x))
                               /\ (Sole(x)' <=> Sole(x)) /\ (SetsRefs(x)' <=> SetsRefs(x))
      /\ ~Waiting(q)' /\ ~Sole(q)'
    BY <1>1, <1>7, AppliedKeeps
<1>10. HostsFollow'
    <2> SUFFICES ASSUME HostsSure' PROVE HostsFollow'
        BY DEF HostsFollow
    <2>1. Sole(q) /\ "hosts" \notin dubious
        BY <1>1, <1>8 DEF HostsSure, Sole
    <2>2. HostsSure
        BY <1>9, <2>1 DEF HostsSure, Sole
    <2>3. \A x \in REQS : ~Sole(x)'
        BY <1>9, <2>1, OnlySole
    <2>4. /\ \A g \in HOSTS : g \in db.hosts <=> g \in seen.hosts \/ g = h
          /\ req[q].r = {} => h \in seen.hosts
        BY <1>1, <1>2, <2>1, <2>2, OnlySole DEF InventoryInv, Stores, HostsFollow
    <2> QED BY <1>5, <1>7, <2>3, <2>4 DEF HostsFollow
<1>11. RowsFollow'
    BY <1>1, <1>5, <1>7, <1>8, RowsApart
<1>12. ASSUME Column, RefsSure'
       PROVE  /\ \A g \in db.hosts : g # h =>
                    \/ Column /\ g \notin seen.hosts
                    \/ seen.refs[g] \cap db.rows = db.refs[g]
              /\ h \in db.hosts => links = db.refs[h] /\ links \subseteq db.rows
              /\ kind = "group" /\ (\A x \in REQS : Waiting(x)' => req'[x].op # "delRow") =>
                    \A g \in db.hosts : g # h =>
                       g \notin seen.hosts \/ seen.refs[g] \subseteq db.rows
    <2>1. Sole(q) /\ "refs" \notin dubious
        BY <1>1, <1>8, <1>12 DEF RefsSure, Sole
    <2>2. RefsSure
        BY <1>9, <1>12, <2>1 DEF RefsSure, Sole
    <2>3. \A g : g # h => ~Rewritten(g)
        BY <1>2, <2>1, OnlySole DEF Rewritten
    <2>4. links = db.refs[h]
        BY <1>1, <1>2, <1>3, <1>12, <2>1 DEF InventoryInv, Stores, Held
    <2>5. h \in db.hosts => links \subseteq db.rows
        BY <1>1, <1>2, <2>4 DEF InventoryInv, Stores, ForeignKeys
    <2>6. (\A x \in REQS : Waiting(x)' => req'[x].op # "delRow")
             => \A x \in REQS : Waiting(x) => req[x].op # "delRow"
        BY <1>1, <1>9
    <2> QED BY <2>2, <2>3, <2>4, <2>5, <2>6 DEF InventoryInv, Stores, RefsFollow, GroupsShown
<1>13. db.hosts \subseteq HOSTS /\ h \in HOSTS
    BY <1>1, <1>2 DEF InventoryInv, InventoryTyped, Shape, Tables
<1>14. ASSUME Column
       PROVE  /\ RefsFollow' /\ GroupsShown'
              /\ form' \in [Forms -> HostDialogs] /\ \A g \in Forms : FormGoes(g)
    <2>1. RefsFollow'
        <3> SUFFICES ASSUME RefsSure', NEW g \in db.hosts
                     PROVE  \/ g \notin seen'.hosts
                            \/ seen'.refs[g] \cap db.rows = db.refs[g]
            BY <1>7, <1>14 DEF RefsFollow, Column
        <3> QED BY <1>5, <1>12, <1>13, <1>14
    <2>2. GroupsShown'
        <3> SUFFICES ASSUME RefsSure', NEW g \in db.hosts, kind = "group",
                            \A x \in REQS : Waiting(x)' => req'[x].op # "delRow"
                     PROVE  g \notin seen'.hosts \/ seen'.refs[g] \subseteq db.rows
            BY <1>7 DEF GroupsShown
        <3> QED BY <1>5, <1>12, <1>13, <1>14
    <2>3. form' \in [Forms -> HostDialogs] /\ \A g \in Forms : FormGoes(g)
        <3>1. PICK f : f = req[q].by
            OBVIOUS
        <3>2. form' = Finished(f, TRUE) /\ f \in Forms
            BY <1>1, <1>14, <3>1 DEF Saved, Finished
        <3> QED BY <3>2, FinishedGoes
    <2> QED BY <2>1, <2>2, <2>3
<1>15. ASSUME ~Column
       PROVE  /\ RefsFollow' /\ GroupsShown'
              /\ form' \in [Forms -> HostDialogs] /\ \A g \in Forms : FormGoes(g)
    <2>1. seen'.refs = seen.refs
        <3>1. seen' = IF ~(h \in seen.hosts \/ req[q].r # {}) THEN seen
                      ELSE [seen EXCEPT !.hosts = @ \cup {h}, !.refs[h] = seen.refs[h]]
            BY <1>2, <1>15 DEF Saved
        <3>2. seen.refs = [seen.refs EXCEPT ![h] = seen.refs[h]]
            BY <1>1 DEF Tables
        <3> QED BY <1>1, <3>1, <3>2 DEF Tables
    <2>2. RefsFollow' /\ GroupsShown'
        BY <1>1, <1>7, <1>8, <1>15, <2>1, RefsApart
    <2>3. form' \in [Forms -> HostDialogs] /\ \A g \in Forms : FormGoes(g)
        BY <1>15, FormStays DEF Saved
    <2> QED BY <2>2, <2>3
<1>16. BornTable(seen)'
    <2>1. \A g \in HOSTS : /\ seen'.refs[g] \in {seen.refs[g], links}
                           /\ g # h => seen'.refs[g] = seen.refs[g]
        BY <1>5, <1>13
    <2> QED BY <1>1, <1>2, <1>4, <1>5, <1>7, <2>1 DEF BornTable
<1>17. /\ form' \in [Forms -> HostDialogs] /\ \A g \in Forms : FormGoes(g)
       /\ RefsFollow' /\ GroupsShown'
    BY <1>14, <1>15
<1> QED BY <1>1, <1>5, <1>7, <1>8, <1>10, <1>11, <1>16, <1>17, AnswerInv

(* The form behind a refresh takes its links, sure of them or not. *)
LEMMA TookGoes ==
    ASSUME InventoryInv, NEW f, NEW links, NEW t, NEW s, Took(f, links, t, s), f \in Forms,
           links \subseteq born,
           s /\ form[f].open /\ f \in {"new", "edit"} => OnTop(f) /\ SureTrue(f)'
    PROVE  form' \in [Forms -> HostDialogs] /\ \A g \in Forms : FormGoes(g) \/ FormTakes(g)
<1>1. FormTakes(f)
    BY DEF Took, FormTakes
<1> QED BY <1>1 DEF Took, FormGoes

(* A command or a list fails: nothing changed, and the list is in doubt. *)
LEMMA FailedStep == ASSUME InventoryInv, NEW q \in REQS, Failed(q) PROVE InventoryInv'
<1>1. /\ req[q].st = "asked" /\ ~Waiting(q) /\ req[q] \in Requests
      /\ StageOf(req[q]) /\ BornRequest(req[q])
      /\ seen \in Tables /\ BornTable(seen) /\ dubious \in SUBSET Cells
      /\ form \in [Forms -> HostDialogs]
    BY DEF Failed, Waiting, InventoryInv, InventoryTyped, Shape, Born, Stages
<1>2. Applied(q, Unasked) /\ FollowUp(q, Unasked) /\ UNCHANGED <<kind, db, born, seen>>
    BY Freed DEF Failed
<1>3. dubious' \in SUBSET Cells /\ dubious \subseteq dubious'
    <2>1. (UNION HostParts) \subseteq Cells /\ (UNION RowParts) \subseteq Cells
        BY DEF HostParts, RowParts, Cells
    <2> QED BY <1>1, <2>1 DEF Failed
<1>4. HostsFollow' /\ RowsFollow'
    BY <1>1, <1>2, <1>3, HostsApart, RowsApart
<1>5. RefsFollow' /\ GroupsShown'
    <2>1. "refs" \in dubious' \/ "refs" \notin dubious
        BY <1>3
    <2> QED BY <1>1, <1>2, <2>1, RefsApart
<1>6. BornTable(seen)'
    BY <1>1, <1>2 DEF BornTable
<1>7. form' \in [Forms -> HostDialogs] /\ \A g \in Forms : FormGoes(g) \/ FormTakes(g)
    <2>1. CASE form' = form
        BY <2>1, FormStays
    <2>2. CASE Reading(q) /\ form' # form
        <3>1. PICK f : f = req[q].by
            OBVIOUS
        <3>2. f \in {"new", "edit"} /\ f \in Forms /\ (f = "edit" => req[q].h \in HOSTS)
            BY <1>1, <2>2, <3>1 DEF Failed, StageOf, Reading, Forms
        <3>3. PICK links : links = IF f = "edit" THEN seen.refs[req[q].h] ELSE {}
            OBVIOUS
        <3>4. links \in SUBSET ROWS /\ links \subseteq born
            BY <1>1, <3>2, <3>3 DEF Tables, BornTable
        <3>5. form' = [form EXCEPT ![f].refs = links, ![f].sure = FALSE]
            BY <2>2, <3>1, <3>2, <3>3 DEF Failed, Reading
        <3>6. PICK t : t = form[f].toggled
            OBVIOUS
        <3>7. t \in SUBSET ROWS /\ form[f] \in HostDialogs
            BY <1>1, <3>2, <3>6 DEF HostDialogs
        <3>8. form' = [form EXCEPT ![f].refs = links, ![f].toggled = t, ![f].sure = FALSE]
            BY <1>1, <3>2, <3>5, <3>6, <3>7 DEF HostDialogs
        <3>9. Took(f, links, t, FALSE)
            BY <1>1, <3>2, <3>4, <3>7, <3>8, FormTook
        <3> QED BY <3>2, <3>4, <3>9, TookGoes
    <2>3. CASE ~Reading(q) /\ form' # form
        <3>1. PICK f : f = req[q].by
            OBVIOUS
        <3>2. form' = Finished(f, FALSE) /\ f \in Forms
            BY <1>1, <2>3, <3>1 DEF Failed, Finished, StageOf, Forms
        <3> QED BY <3>2, FinishedGoes
    <2> QED BY <2>1, <2>2, <2>3
<1> QED BY <1>1, <1>2, <1>3, <1>4, <1>5, <1>6, <1>7, AnswerInv

(* The store takes the lists, which are true unless outdated, and the form its links. *)
LEMMA RefreshedStep == ASSUME InventoryInv, NEW q \in REQS, Refreshed(q) PROVE InventoryInv'
<1>1. /\ req[q].st = "ok" /\ Reading(q) /\ ~Waiting(q) /\ req[q] \in Requests
      /\ StageOf(req[q]) /\ BornRequest(req[q]) /\ req[q].parts = {}
      /\ req[q].got \in Tables /\ BornTable(req[q].got) /\ req[q].late \in BOOLEAN
      /\ seen \in Tables /\ BornTable(seen) /\ dubious \in SUBSET Cells
      /\ form \in [Forms -> HostDialogs]
    <2>1. /\ req[q].st = "ok" /\ Reading(q) /\ req[q] \in Requests
          /\ StageOf(req[q]) /\ BornRequest(req[q])
        BY DEF Refreshed, InventoryInv, InventoryTyped, Shape, Born, Stages
    <2>2. req[q].parts = {}
        BY <2>1 DEF StageOf, Reading, Reads
    <2> QED BY <2>1, <2>2 DEF Waiting, BornRequest, Requests, InventoryInv, InventoryTyped, Shape,
                              Born
<1>2. PICK cells : cells = UNION AllParts(req[q].op)
    OBVIOUS
<1>3. /\ "hosts" \in cells <=> req[q].op = "hosts"
      /\ "rows" \in cells <=> req[q].op = "rows"
      /\ "refs" \in cells <=> (Column <=> req[q].op = "hosts")
    <2>1. (UNION HostParts) = IF Column THEN {"hosts", "refs"} ELSE {"hosts"}
        BY DEF HostParts
    <2>2. (UNION RowParts) = IF Column THEN {"rows"} ELSE {"rows", "refs"}
        BY DEF RowParts
    <2> QED BY <1>1, <1>2, <2>1, <2>2 DEF AllParts, Reading
<1>4. PICK got : got = req[q].got
    OBVIOUS
<1>5. /\ seen' \in Tables
      /\ seen'.hosts = IF "hosts" \in cells THEN got.hosts ELSE seen.hosts
      /\ seen'.rows = IF "rows" \in cells THEN got.rows ELSE seen.rows
      /\ seen'.refs = IF "refs" \in cells THEN got.refs ELSE seen.refs
    <2>1. seen' = [f \in Cells |-> IF f \in cells THEN got[f] ELSE seen[f]]
        BY <1>2, <1>4 DEF Refreshed, AllParts
    <2> QED BY <1>1, <1>4, <2>1, Mixture
<1>6. ~req[q].stale => /\ "hosts" \in cells => got.hosts = db.hosts
                       /\ "rows" \in cells => got.rows = db.rows
                       /\ "refs" \in cells => got.refs = db.refs
    <2>1. ~req[q].stale => \A cell \in cells \ (UNION {}) : got[cell] = db[cell]
        BY <1>1, <1>2, <1>4 DEF InventoryInv, Stores, ReadTrue
    <2> QED BY <2>1
<1>7. Applied(q, Unasked) /\ FollowUp(q, Unasked) /\ UNCHANGED <<kind, db, born>>
    BY Freed DEF Refreshed
<1>8. /\ dubious' \in SUBSET Cells
      /\ \A cell \in cells : req[q].stale => cell \in dubious'
      /\ \A cell \in dubious : cell \notin cells => cell \in dubious'
    <2>1. dubious' = IF req[q].stale THEN dubious \cup cells ELSE dubious \ cells
        BY <1>2 DEF Refreshed, Wrote, AllParts
    <2>2. cells \subseteq Cells
        BY <1>2 DEF AllParts, HostParts, RowParts, Cells
    <2> QED BY <1>1, <2>1, <2>2
<1>9. HostsFollow'
    <2>1. CASE "hosts" \notin cells
        BY <1>1, <1>5, <1>7, <1>8, <2>1, HostsApart
    <2>2. CASE "hosts" \in cells /\ req[q].stale
        BY <1>8, <2>2 DEF HostsFollow, HostsSure
    <2>3. CASE "hosts" \in cells /\ ~req[q].stale
        <3>1. seen'.hosts = db.hosts
            BY <1>5, <1>6, <2>3
        <3> QED BY <1>1, <1>7, <3>1, HostsAsRead
    <2> QED BY <2>1, <2>2, <2>3
<1>10. RowsFollow'
    <2>1. CASE "rows" \notin cells
        BY <1>1, <1>5, <1>7, <1>8, <2>1, RowsApart
    <2>2. CASE "rows" \in cells /\ req[q].stale
        BY <1>8, <2>2 DEF RowsFollow, RowsSure
    <2>3. CASE "rows" \in cells /\ ~req[q].stale
        <3>1. seen'.rows = db.rows
            BY <1>5, <1>6, <2>3
        <3> QED BY <1>1, <1>7, <3>1, RowsAsRead
    <2> QED BY <2>1, <2>2, <2>3
<1>11. RefsFollow' /\ GroupsShown'
    <2>1. CASE "refs" \notin cells
        <3>1. Column => seen'.hosts \subseteq seen.hosts
            BY <1>3, <1>5, <2>1
        <3>2. "refs" \in dubious' \/ "refs" \notin dubious
            BY <1>8, <2>1
        <3>3. seen'.refs = seen.refs
            BY <1>5, <2>1
        <3> QED BY <1>1, <1>7, <3>1, <3>2, <3>3, RefsApart
    <2>2. CASE "refs" \in cells /\ req[q].stale
        BY <1>8, <2>2 DEF RefsFollow, GroupsShown, RefsSure
    <2>3. CASE "refs" \in cells /\ ~req[q].stale
        <3>1. seen'.refs = db.refs
            BY <1>5, <1>6, <2>3
        <3> QED BY <1>1, <1>7, <3>1, RefsAsRead
    <2> QED BY <2>1, <2>2, <2>3
<1>12. BornTable(seen)'
    BY <1>1, <1>4, <1>5, <1>7 DEF BornTable
<1>13. form' \in [Forms -> HostDialogs] /\ \A g \in Forms : FormGoes(g) \/ FormTakes(g)
    <2>1. PICK f : f = req[q].by
        OBVIOUS
    <2>2. CASE Column \/ f = "none"
        <3>1. form' = form
            BY <2>1, <2>2 DEF Refreshed, TakeLinks
        <3> QED BY <3>1, FormStays
    <2>3. CASE ~(Column \/ f = "none")
        <3> DEFINE s == /\ OnTop(f) /\ ~req[q].late /\ ~req[q].stale
                        /\ ~\E x \in REQS \ {q} : req[x].st # "free" /\ ~Reading(x)
        <3>1. req[q].op = "rows" /\ f \in {"new", "edit"} /\ f \in Forms
              /\ (f = "edit" => req[q].h \in HOSTS)
            BY <1>1, <2>1, <2>3 DEF StageOf, Reading, Forms
        <3>2. PICK links : links = IF f = "edit" THEN got.refs[req[q].h] ELSE {}
            OBVIOUS
        <3>3. PICK t : t = IF req[q].late THEN form[f].toggled ELSE {}
            OBVIOUS
        <3>4. form' = [form EXCEPT ![f].refs = links, ![f].toggled = t, ![f].sure = s]
            BY <1>4, <2>1, <2>3, <3>2, <3>3 DEF Refreshed, TakeLinks
        <3>5. /\ s \in BOOLEAN
              /\ s => /\ OnTop(f) /\ form[f].open /\ ~req[q].late /\ ~req[q].stale
                      /\ \A x \in REQS \ {q} : req[x].st = "free" \/ Reading(x)
            BY DEF OnTop
        <3> HIDE DEF s
        <3>6. links \in SUBSET ROWS /\ links \subseteq born /\ t \in SUBSET ROWS
            <4>1. form[f] \in HostDialogs
                BY <1>1, <3>1
            <4> QED BY <1>1, <1>4, <3>1, <3>2, <3>3, <4>1 DEF Tables, BornTable, HostDialogs
        <3>7. Took(f, links, t, s)
            BY <1>1, <3>1, <3>4, <3>5, <3>6, FormTook
        <3>8. ASSUME s PROVE SureTrue(f)'
            <4>1. \A x \in REQS : req'[x].st = "free" \/ Reading(x)'
                <5>1. \A x \in REQS \ {q} : req'[x] = req[x]
                    BY <1>1, <1>7, AppliedKeeps
                <5>2. req'[q] = Unasked
                    BY <1>1, <1>7, AppliedKeeps
                <5> QED BY <3>5, <3>8, <5>1, <5>2 DEF Reading, Unasked
            <4>2. f = "edit" => form'[f].h = req[q].h /\ form'[f].refs = db.refs[req[q].h]
                <5>1. req[q].h = form[f].h
                    BY <2>1, <3>1, <3>5, <3>8 DEF InventoryInv, Intent, OfThisOpening
                <5>2. got.refs = db.refs
                    BY <1>3, <1>6, <2>3, <3>1, <3>5, <3>8
                <5> QED BY <3>2, <3>7, <5>1, <5>2 DEF Took
            <4>3. f = "new" => form'[f].refs = {}
                BY <3>2, <3>7 DEF Took
            <4> QED BY <1>7, <4>1, <4>2, <4>3 DEF SureTrue, Differ
        <3> QED BY <3>1, <3>5, <3>6, <3>7, <3>8, TookGoes
    <2> QED BY <2>2, <2>3
<1> QED BY <1>1, <1>5, <1>7, <1>8, <1>9, <1>10, <1>11, <1>12, <1>13, AnswerInv

----------------------------------------------------------------------------
(* What ServerList draws *)

(* The list goes: the edit form is sure of nothing any more, and what was asked
   for it is nobody's. *)
LEMMA UnmountedStep == InventoryInv /\ Unmounted => InventoryInv'
<1> SUFFICES ASSUME InventoryInv, Unmounted PROVE InventoryInv'
    OBVIOUS
<1>1. /\ form \in [Forms -> HostDialogs] /\ req \in [REQS -> Requests] /\ drawn /\ ~drawn'
      /\ UNCHANGED <<kind, db, seen, born, dubious>> /\ "edit" \in Forms /\ "new" \in Forms
    BY DEF InventoryInv, InventoryTyped, Shape, Unmounted, Forms
<1>2. PICK e : e = form["edit"]
    OBVIOUS
<1>3. PICK x : x = Away(e)
    OBVIOUS
<1>4. /\ x \in HostDialogs /\ x.open = e.open /\ ~x.sure /\ (x.open => x.h = e.h)
      /\ x.h \in {e.h, NoHost} /\ x.refs \in {e.had, {}} /\ x.had \in {e.had, {}}
    <2>1. e \in HostDialogs
        BY <1>1, <1>2
    <2>2. CASE e.open
        <3>1. x = [Closed EXCEPT !.open = TRUE, !.h = e.h, !.had = e.had, !.refs = e.had]
            BY <1>3, <2>2 DEF Away
        <3> QED BY <2>1, <2>2, <3>1, ClosedTyped DEF HostDialogs
    <2>3. CASE ~e.open
        <3>1. x = Closed
            BY <1>3, <2>3 DEF Away
        <3> QED BY <2>1, <2>3, <3>1, ClosedTyped DEF HostDialogs
    <2> QED BY <2>2, <2>3
<1>5. /\ form' \in [Forms -> HostDialogs] /\ form'["edit"] = x
      /\ \A g \in Forms \ {"edit"} : form'[g] = form[g]
    BY <1>1, <1>2, <1>3, <1>4 DEF Unmounted
<1>6. ASSUME NEW q \in REQS
      PROVE  /\ req'[q] \in Requests /\ StageOf(req'[q]) /\ BornRequest(req'[q]) /\ Alike(q)
             /\ ~(req'[q].op = "rows" /\ req'[q].by = "edit")
             /\ req[q].by # "edit" => req'[q] = req[q]
    <2>1. req[q] \in Requests /\ StageOf(req[q]) /\ BornRequest(req[q])
        BY DEF InventoryInv, InventoryTyped, Shape, Stages, Born
    <2>2. req'[q] = Unheard(req[q])
        BY DEF Unmounted
    <2>3. CASE req[q].by = "edit" /\ req[q].op \in {"rows", "newRow"}
        <3>1. req'[q] = [req[q] EXCEPT !.by = "none", !.h = NoHost, !.late = FALSE]
            BY <2>2, <2>3 DEF Unheard
        <3>2. req'[q] \in Requests
            BY <2>1, <3>1 DEF Requests, HostIds
        <3>3. /\ req'[q].by = "none" /\ req'[q].h = NoHost
              /\ req'[q].st = req[q].st /\ req'[q].op = req[q].op /\ req'[q].r = req[q].r
              /\ req'[q].refs = req[q].refs /\ req'[q].parts = req[q].parts
              /\ req'[q].got = req[q].got /\ req'[q].stale = req[q].stale
              /\ req'[q].toggled = req[q].toggled /\ req'[q].hasty = req[q].hasty
            BY <2>1, <3>1 DEF Requests
        <3>4. Alike(q)
            BY <2>3, <3>3 DEF Alike
        <3>5. StageOf(req'[q])
            BY <2>1, <2>3, <3>3 DEF StageOf, Reads
        <3>6. BornRequest(req'[q])
            BY <2>1, <3>3 DEF BornRequest
        <3> QED BY <2>3, <3>2, <3>3, <3>4, <3>5, <3>6
    <2>4. CASE ~(req[q].by = "edit" /\ req[q].op \in {"rows", "newRow"})
        <3>1. req'[q] = req[q]
            BY <2>2, <2>4 DEF Unheard
        <3> QED BY <2>1, <2>4, <3>1 DEF Alike
    <2> QED BY <2>3, <2>4
<1>7. Shape'
    <2>1. req' = [q \in REQS |-> req'[q]]
        BY DEF Unmounted
    <2>2. req' \in [REQS -> Requests]
        BY <1>6, <2>1
    <2> QED BY <1>1, <1>5, <2>2 DEF InventoryInv, InventoryTyped, Shape
<1>8. Stages'
    <2> SUFFICES ASSUME NEW q \in REQS PROVE StageOf(req[q])'
        BY DEF Stages
    <2>1. PICK c : c = req'[q]
        OBVIOUS
    <2>2. StageOf(c)
        BY <1>6, <2>1
    <2> QED BY <1>1, <2>1, <2>2 DEF StageOf, AllParts, HostParts, RowParts, Column
<1>9. Edits'
    <2>1. ASSUME form["new"].open, form["new"].sure PROVE OnTop("new")'
        <3>1. ~form["edit"].open
            BY <1>1, <2>1 DEF InventoryInv, InventoryTyped, Edits, OnTop
        <3> QED BY <1>1, <1>2, <1>4, <1>5, <2>1, <3>1 DEF OnTop
    <2>2. /\ form'["edit"].open => form'["edit"].h \in HOSTS
          /\ form'["new"] = form["new"] /\ form'["row"] = form["row"]
        BY <1>1, <1>2, <1>4, <1>5 DEF InventoryInv, InventoryTyped, Edits, Forms
    <2> QED BY <1>4, <1>5, <2>1, <2>2 DEF InventoryInv, InventoryTyped, Edits
<1>10. Born'
    <2>1. \A g \in Forms : BornForm(form[g])'
        BY <1>1, <1>2, <1>4, <1>5 DEF InventoryInv, InventoryTyped, Born, BornForm
    <2>2. ASSUME NEW q \in REQS PROVE BornRequest(req[q])'
        <3>1. PICK c : c = req'[q]
            OBVIOUS
        <3>2. BornRequest(c)
            BY <1>6, <3>1
        <3> QED BY <1>1, <3>1, <3>2 DEF BornRequest, BornTable
    <2> QED BY <1>1, <2>1, <2>2 DEF InventoryInv, InventoryTyped, Born, BornTable
<1>11. Stores'
    BY <1>1, <1>6, QuietStores DEF InventoryInv
<1>12. AskedTrue'
    BY <1>1, <1>6, AskedKept DEF InventoryInv, Intent
<1>13. FormTrue'
    <2> SUFFICES ASSUME NEW g \in {"new", "edit"}, form'[g].open, form'[g].sure
                 PROVE  SureTrue(g)'
        BY DEF FormTrue, SureTrue
    <2>1. g = "new" /\ form'[g] = form[g]
        BY <1>4, <1>5 DEF Forms
    <2>2. SureTrue(g)
        BY <2>1 DEF InventoryInv, Intent, FormTrue, SureTrue
    <2>3. ASSUME NEW q \in REQS, req'[q].st # "free", ~Reading(q)'
          PROVE  FormFits(form'[g], g, req'[q])
        <3>1. req[q].st # "free" /\ ~Reading(q)
            BY <1>6, <2>3 DEF Alike, Reading
        <3>2. FormFits(form[g], g, req[q])
            BY <2>2, <3>1 DEF SureTrue
        <3>3. req'[q] = req[q]
            BY <1>6, <2>1, <3>2 DEF FormFits
        <3> QED BY <2>1, <3>2, <3>3
    <2> QED BY <1>1, <2>1, <2>2, <2>3 DEF SureTrue
<1>14. OfThisOpening'
    <2> SUFFICES ASSUME NEW q \in REQS, NEW g \in {"new", "edit"}, req'[q].op = "rows",
                        req'[q].by = g, form'[g].open, ~req'[q].late
                 PROVE  req'[q].h = form'[g].h
        BY DEF OfThisOpening
    <2>1. g = "new" /\ form'[g] = form[g]
        BY <1>5, <1>6 DEF Forms
    <2>2. req'[q] = req[q]
        <3>1. req[q].by # "edit"
            <4>1. req'[q] = Unheard(req[q]) /\ req[q] \in Requests /\ req[q].op = "rows"
                BY <1>1, <1>6 DEF Unmounted, Alike
            <4>2. ASSUME req[q].by = "edit" PROVE FALSE
                <5>1. req'[q].by = "none"
                    BY <4>1, <4>2 DEF Unheard, Requests
                <5> QED BY <2>1, <5>1
            <4> QED BY <4>2
        <3> QED BY <1>6, <3>1
    <2> QED BY <2>1, <2>2 DEF InventoryInv, Intent, OfThisOpening
<1> QED BY <1>7, <1>8, <1>9, <1>10, <1>11, <1>12, <1>13, <1>14 DEF InventoryInv, InventoryTyped, Intent

(* The list comes back, and the edit form over it, whose rows are fetched: no
   form is sure of anything. *)
LEMMA RemountedStep == InventoryInv /\ Remounted => InventoryInv'
<1> SUFFICES ASSUME InventoryInv, Remounted PROVE InventoryInv'
    OBVIOUS
<1>1. /\ form \in [Forms -> HostDialogs] /\ req \in [REQS -> Requests]
      /\ UNCHANGED <<kind, db, seen, born, dubious>> /\ Forms = {"new", "edit", "row"}
    BY DEF InventoryInv, InventoryTyped, Shape, Remounted, Forms
<1>2. CASE ~form["edit"].open
    <2>1. UNCHANGED <<req, form>> /\ drawn'
        BY <1>2 DEF Remounted
    <2>2. \A x \in REQS : Kept(x)
        BY <2>1 DEF Kept, Alike
    <2>3. Stages' /\ (\A x \in REQS : BornRequest(req[x])') /\ Stores' /\ AskedTrue'
        BY <1>1, <2>2, KeptAll
    <2>4. Shape' /\ Edits'
        BY <1>1, <1>2, <2>1 DEF InventoryInv, InventoryTyped, Shape, Edits, OnTop
    <2>5. Born'
        BY <1>1, <2>1, <2>3 DEF InventoryInv, InventoryTyped, Born, BornTable, BornForm
    <2>6. FormTrue' /\ OfThisOpening'
        BY <1>1, <2>1 DEF InventoryInv, Intent, FormTrue, OfThisOpening, Reading
    <2> QED BY <2>3, <2>4, <2>5, <2>6 DEF InventoryInv, InventoryTyped, Intent
<1>3. CASE form["edit"].open
    <2>1. PICK h : h = form["edit"].h
        OBVIOUS
    <2>2. h \in HOSTS /\ h \in born \cup {NoHost} /\ h \in HostIds
        BY <1>1, <1>3, <2>1 DEF InventoryInv, InventoryTyped, Edits, Born, BornForm, HostIds
    <2>3. PICK c : c = Request("rows", "edit", h, {}, {})
        OBVIOUS
    <2>4. Made(c, "rows", "edit", h, {}, {}, {}, FALSE)
        <3>1. "rows" \in Asks /\ "edit" \in Bys /\ {} \in SUBSET ROWS
            BY <1>1, Terms
        <3> QED BY <2>2, <2>3, <3>1, RequestMade
    <2>5. Askable(c)
        BY <2>2, <2>4, MadeAskable DEF Made
    <2>6. PICK q \in Slot : req' = [req EXCEPT ![q] = c]
        BY <1>3, <2>1, <2>3 DEF Remounted
    <2>7. q \in REQS /\ req[q].st = "free"
        BY <2>6 DEF Slot, OneId
    <2>8. req'[q] = c /\ (\A x \in REQS \ {q} : req'[x] = req[x]) /\ req' \in [REQS -> Requests]
        BY <1>1, <2>5, <2>6, <2>7 DEF Askable
    <2>9. form' = [f \in Forms |-> [form[f] EXCEPT !.sure = FALSE]]
        BY <1>1, <1>3 DEF Remounted
    <2>10. ASSUME NEW f \in Forms
           PROVE  /\ form'[f] \in HostDialogs /\ form'[f].open = form[f].open /\ ~form'[f].sure
                  /\ form'[f].h = form[f].h /\ form'[f].refs = form[f].refs
                  /\ form'[f].had = form[f].had
        <3>1. form[f] \in HostDialogs /\ form'[f] = [form[f] EXCEPT !.sure = FALSE]
            BY <1>1, <2>9
        <3> QED BY <3>1 DEF HostDialogs
    <2>11. Stages' /\ (\A x \in REQS : BornRequest(req[x])') /\ Stores'
        <3>1. \A x \in REQS : Kept(x) \/ (req[x].st = "free" /\ \E d : Askable(d) /\ req'[x] = d)
            BY <2>5, <2>7, <2>8 DEF Kept, Alike
        <3> QED BY <1>1, <3>1, AskKeeps DEF InventoryInv
    <2>12. Shape'
        <3>1. form' \in [Forms -> HostDialogs]
            BY <2>9, <2>10
        <3> QED BY <1>1, <2>8, <3>1 DEF InventoryInv, InventoryTyped, Shape
    <2>13. Edits'
        BY <1>1, <2>10 DEF InventoryInv, InventoryTyped, Edits
    <2>14. Born'
        <3>1. \A g \in Forms : BornForm(form[g])'
            BY <1>1, <2>10 DEF InventoryInv, InventoryTyped, Born, BornForm
        <3> QED BY <1>1, <2>11, <3>1 DEF InventoryInv, InventoryTyped, Born, BornTable
    <2>15. FormTrue'
        BY <1>1, <2>10 DEF FormTrue
    <2>16. AskedTrue'
        <3>1. \A x \in REQS : Alike(x) \/ req'[x].op \notin {"save", "links", "move"}
            BY <2>4, <2>8 DEF Alike, Made
        <3> QED BY <1>1, <3>1, AskedKept DEF InventoryInv, Intent
    <2>17. OfThisOpening'
        <3> SUFFICES ASSUME NEW y \in REQS, NEW g \in {"new", "edit"}, req'[y].op = "rows",
                            req'[y].by = g, form'[g].open, ~req'[y].late
                     PROVE  req'[y].h = form'[g].h
            BY DEF OfThisOpening
        <3>1. form'[g].open = form[g].open /\ form'[g].h = form[g].h
            BY <1>1, <2>10
        <3>2. CASE y = q
            BY <2>1, <2>4, <2>8, <3>1, <3>2 DEF Made
        <3>3. CASE y # q
            BY <2>8, <3>1, <3>3 DEF InventoryInv, Intent, OfThisOpening
        <3> QED BY <3>2, <3>3
    <2> QED BY <2>11, <2>12, <2>13, <2>14, <2>15, <2>16, <2>17
            DEF InventoryInv, InventoryTyped, Intent
<1> QED BY <1>2, <1>3

----------------------------------------------------------------------------
(* The behaviours *)

(* The initial state satisfies the invariant. *)
LEMMA InvInitially == InvInit => InventoryInv
<1> SUFFICES ASSUME InvInit PROVE InventoryInv
    OBVIOUS
<1>1. PICK h \in OneId(HOSTS), r \in OneId(ROWS) :
          /\ db = [hosts |-> {h}, rows |-> {r}, refs |-> [NoRefs EXCEPT ![h] = {r}]]
          /\ born = {h, r}
    BY DEF InvInit
<1>2. h \in HOSTS /\ r \in ROWS
    BY DEF OneId
<1>3. /\ db \in Tables /\ db.hosts = {h} /\ db.rows = {r} /\ db.refs[h] = {r}
      /\ \A g \in HOSTS : g # h => db.refs[g] = {}
    BY <1>1, <1>2 DEF Tables, NoRefs
<1>4. /\ kind \in KINDS /\ seen = db /\ dubious = {} /\ req = [q \in REQS |-> Unasked]
      /\ form = [f \in Forms |-> Closed]
    BY DEF InvInit, Forms
<1>5. \A q \in REQS : req[q] = Unasked /\ req[q].st = "free" /\ req[q].op = "none"
    BY <1>4 DEF Unasked
<1>6. \A q \in REQS : ~Waiting(q) /\ ~Sole(q) /\ ~Reading(q) /\ ~Promises(q)
    BY <1>5 DEF Waiting, Sole, Reading, Promises
<1>7. \A f \in Forms : /\ form[f] = Closed /\ ~form[f].open /\ form[f].h = NoHost
                       /\ form[f].refs = {} /\ form[f].had = {}
    BY <1>4, ClosedTyped
<1>8. Shape
    <2>1. req \in [REQS -> Requests] /\ form \in [Forms -> HostDialogs]
        BY <1>4, UnaskedTyped, ClosedTyped
    <2> QED BY <1>1, <1>2, <1>3, <1>4, <2>1 DEF Shape
<1>9. Stages
    BY <1>5, UnaskedFits DEF Stages
<1>10. Edits
    BY <1>7 DEF Edits, Forms
<1>11. Born
    <2>1. BornTable(db)
        BY <1>1, <1>2, <1>3 DEF BornTable
    <2>2. \A q \in REQS : BornRequest(req[q])
        BY <1>5, UnaskedFits
    <2> QED BY <1>4, <1>7, <2>1, <2>2 DEF Born, BornForm
<1>12. ForeignKeys /\ OneSole /\ Held /\ ReadTrue
    BY <1>3, <1>6 DEF ForeignKeys, OneSole, Held, ReadTrue
<1>13. HostsFollow /\ RowsFollow
    BY <1>4, <1>6 DEF HostsFollow, RowsFollow
<1>14. RefsFollow /\ GroupsShown
    BY <1>3, <1>4 DEF RefsFollow, GroupsShown
<1>16. FormTrue /\ AskedTrue /\ OfThisOpening
    BY <1>6, <1>7 DEF FormTrue, AskedTrue, OfThisOpening, Forms
<1> QED BY <1>8, <1>9, <1>10, <1>11, <1>12, <1>13, <1>14, <1>16
        DEF InventoryInv, InventoryTyped, Stores, Intent

(* Without a command, nothing changes in the tables. *)
LEMMA NoCommand == UNCHANGED db => OnlyToggled
BY DEF OnlyToggled

(* Every step keeps the invariant and changes only what was toggled. *)
LEMMA InvStep == InventoryInv /\ [InvNext]_ivars => InventoryInv' /\ OnlyToggled
<1> SUFFICES ASSUME InventoryInv, [InvNext]_ivars PROVE InventoryInv' /\ OnlyToggled
    OBVIOUS
<1>1. CASE Clicks
    <2>1. InventoryInv'
        <3>1. form \in [Forms -> HostDialogs]
            BY DEF InventoryInv, InventoryTyped, Shape
        <3>2. \A f \in DOMAIN form : PickerCreates(f) \/ SubmitHost(f) => InventoryInv'
            BY <3>1, PickerCreatesStep, SubmitHostStep
        <3> QED BY <1>1, <3>2, MountRowsStep, MountHostsStep, SubmitRowStep, DeleteHostStep, DeleteRowStep,
                   MoveHostStep, OpenHostFormStep DEF Clicks
    <2>2. UNCHANGED db
        BY <1>1 DEF Clicks, MountRows, MountHosts, SubmitRow, DeleteHost, DeleteRow, MoveHost, OpenHostForm,
                    PickerCreates, SubmitHost
    <2> QED BY <2>1, <2>2, NoCommand
<1>2. CASE Handling
    <2>1. InventoryInv'
        <3>1. form \in [Forms -> HostDialogs]
            BY DEF InventoryInv, InventoryTyped, Shape
        <3> QED BY <1>2, <3>1, OpenRowFormStep, DismissStep, ToggleStep DEF Handling
    <2>2. UNCHANGED db
        BY <1>2 DEF Handling, OpenRowForm, Dismiss_, Toggle
    <2> QED BY <2>1, <2>2, NoCommand
<1>3. ASSUME NEW q \in REQS, Exec(q) PROVE InventoryInv' /\ OnlyToggled
    <2>1. Read(q) => UNCHANGED db
        BY DEF Read
    <2> QED BY <1>3, <2>1, NoCommand, ReadStep, ExecSaveStep, ExecLinksStep, ExecNewRowStep,
               ExecDelRowStep, ExecDelHostStep, ExecMoveStep DEF Exec
<1>4. ASSUME NEW q \in REQS, Answer(q) PROVE InventoryInv' /\ OnlyToggled
    <2>1. UNCHANGED db
        BY <1>4 DEF Answer, Refreshed, Saved, LinksSaved, RowCreated, RowDeleted, Moved,
                    HostDeleted, Failed
    <2>2. InventoryInv'
        BY <1>4, RefreshedStep, SavedStep, LinksSavedStep, RowCreatedStep, RowDeletedStep,
           MovedStep, HostDeletedStep, FailedStep DEF Answer
    <2> QED BY <2>1, <2>2, NoCommand
<1>5. CASE UNCHANGED ivars
    <2>1. InventoryInv'
        BY <1>5
           DEF ivars, InventoryInv, InventoryTyped, Shape, Stages, StageOf, Edits, Born,
                    BornTable, BornRequest,
                    BornForm, Stores, ForeignKeys, OneSole, Held, ReadTrue, HostsFollow, HostsSure,
                    RowsFollow, RowsSure, RefsFollow, RefsSure, GroupsShown, Rewritten, SetsRefs,
                    Sole, Waiting, Reading, AllParts, HostParts, RowParts, Column, OnTop,
                    Intent, FormTrue, FormFits, AskedTrue, Promises, RequestFits, OfThisOpening
    <2> QED BY <1>5, <2>1, NoCommand DEF ivars
<1>6. CASE Unmounted \/ Remounted
    BY <1>6, UnmountedStep, RemountedStep, NoCommand DEF Unmounted, Remounted
<1> QED BY <1>1, <1>2, <1>3, <1>4, <1>5, <1>6 DEF InvNext

(* The invariant, for any hosts, rows, kinds of rows and requests at once. *)
THEOREM InventoryInvariant == InvSpec => []InventoryInv
BY InvInitially, InvStep, PTL DEF InvSpec

(* With nothing under way, what the stores are compared by is the database itself. *)
LEMMA FollowWhenIdle == InventoryInv => StoresFollow
<1> SUFFICES ASSUME InventoryInv, \A q \in REQS : req[q].st = "free"
             PROVE  /\ "hosts" \notin dubious => seen.hosts = db.hosts
                    /\ "rows" \notin dubious => seen.rows = db.rows
                    /\ dubious = {} => \A h \in db.hosts : seen.refs[h] \cap db.rows = db.refs[h]
                    /\ dubious = {} /\ kind = "group" =>
                          \A h \in seen.hosts : seen.refs[h] \subseteq seen.rows
    BY DEF StoresFollow
<1>1. \A q \in REQS : ~Waiting(q) /\ ~Sole(q)
    BY DEF Waiting, Sole
<1>2. db \in Tables /\ seen \in Tables
    BY DEF InventoryInv, InventoryTyped, Shape
<1>3. "hosts" \notin dubious => seen.hosts = db.hosts
    <2>1. "hosts" \notin dubious => \A h \in HOSTS : h \in db.hosts <=> h \in seen.hosts
        BY <1>1 DEF InventoryInv, Stores, HostsFollow, HostsSure
    <2> QED BY <1>2, <2>1 DEF Tables
<1>4. "rows" \notin dubious => seen.rows = db.rows
    <2>1. "rows" \notin dubious => \A r \in ROWS : r \in db.rows <=> r \in seen.rows
        BY <1>1 DEF InventoryInv, Stores, RowsFollow, RowsSure
    <2> QED BY <1>2, <2>1 DEF Tables
<1>5. dubious = {} => \A h \in db.hosts : seen.refs[h] \cap db.rows = db.refs[h]
    BY <1>1, <1>3 DEF InventoryInv, Stores, RefsFollow, RefsSure, Rewritten
<1>6. dubious = {} /\ kind = "group" => \A h \in seen.hosts : seen.refs[h] \subseteq seen.rows
    BY <1>1, <1>3, <1>4 DEF InventoryInv, Stores, GroupsShown, RefsSure, Rewritten
<1> QED BY <1>3, <1>4, <1>5, <1>6

(* Once nothing is on its way the stores agree with the database, however commands
   and lists were interleaved.  Excused, until it is written from a whole fresh list,
   is a store whose last word is an answer outdated by a command executed before it
   was applied, or half read when one was; one whose refresh failed; and, for the
   references, one that waits for the refresh after a move or a group's deletion. *)
THEOREM StoresAlwaysFollow == InvSpec => []StoresFollow
BY InventoryInvariant, FollowWhenIdle, PTL

(* A command changes only the references toggled in the opening of the form that
   asked for it, or moved between.  Excused are the saves and moves Inventory names:
   of a list the opening's own refresh had not filled, or filled while a command was
   under way or from an outdated answer; of a select, or a move, begun while a command
   was under way or the store's references were in doubt; from a list replaced by an
   earlier opening's answer or by a tag created from an older state of it; in a
   form ServerList brought back, or a dialog over which it brought one back; and
   those another command overtook. *)
THEOREM ChangesOnlyToggled == InvSpec => OnlyToggledChange
<1>1. InventoryInv /\ [InvNext]_ivars =>
        [\A h \in db.hosts \cap db'.hosts : \A r \in db.rows \cap db'.rows :
          (r \in db.refs[h]) # (r \in db'.refs[h]) =>
             \E q \in REQS : /\ req[q].st = "asked" /\ req'[q].st = "ok"
                             /\ req[q].hasty \/ r \in req[q].toggled]_ivars
    BY InvStep DEF OnlyToggled
<1> QED BY <1>1, InventoryInvariant, PTL DEF InvSpec, OnlyToggledChange

----------------------------------------------------------------------------
(* Inventory: types *)

AtMostOne(s) == \A x, y \in s : x = y
FewInTable(t) == \A h \in HOSTS : AtMostOne(t.refs[h])
FewInRequest(c) == AtMostOne(c.refs) /\ FewInTable(c.got) /\ (c.op = "newRow" => c.by = "row")

(* A column holds one reference, so no form, request or answer carries two.    *)
ColumnHoldsOne ==
    Column => /\ FewInTable(db) /\ FewInTable(seen)
              /\ \A q \in REQS : FewInRequest(req[q])
              /\ \A f \in Forms : AtMostOne(form[f].refs) /\ AtMostOne(form[f].had)

(* What ServerList draws from is set and reset with the hosts' refreshes.       *)
Drawing == error \in BOOLEAN /\ drawn \in BOOLEAN

(* Every step leaves it so.                                                    *)
LEMMA DrawingStep == Drawing /\ [InvNext]_ivars => Drawing'
<1> SUFFICES ASSUME Drawing, [InvNext]_ivars PROVE Drawing'
  OBVIOUS
<1>1. CASE Unmounted \/ Remounted
  BY <1>1 DEF Unmounted, Remounted, Drawing
<1>2. CASE Clicks
  BY <1>2 DEF Clicks, MountRows, MountHosts, SubmitRow, DeleteHost, DeleteRow, MoveHost, OpenHostForm,
              PickerCreates, SubmitHost, Drawing
<1>3. CASE Handling
  BY <1>3 DEF Handling, OpenRowForm, Dismiss_, Toggle, Drawing
<1>4. ASSUME NEW q \in REQS, Exec(q) PROVE Drawing'
  BY <1>4 DEF Exec, Read, ExecSave, ExecLinks, ExecNewRow, ExecDelRow, ExecDelHost, ExecMove,
              Executed, Drawing
<1>5. ASSUME NEW q \in REQS, Answer(q) PROVE Drawing'
  <2>1. drawn' = drawn /\ error' \in {error, FALSE, error \/ req[q].op = "hosts", error /\ kind # "group"}
    BY <1>5 DEF Answer, Refreshed, Saved, LinksSaved, RowCreated, RowDeleted, Moved, HostDeleted, Failed
  <2> QED
    BY <2>1 DEF Drawing
<1>6. CASE UNCHANGED ivars
  BY <1>6 DEF ivars, Drawing
<1> QED
  BY <1>1, <1>2, <1>3, <1>4, <1>5, <1>6 DEF InvNext

(* With what the promises are about, the types follow.                         *)
LEMMA InventoryTypesFollow == InventoryInv /\ ColumnHoldsOne /\ Drawing => InvTypeOK
<1> SUFFICES ASSUME InventoryInv, ColumnHoldsOne, Drawing PROVE InvTypeOK
  OBVIOUS
<1>1. ASSUME Column, NEW h \in HOSTS PROVE Cardinality(db.refs[h]) <= 1
  <2> DEFINE s == db.refs[h]
  <2>1. \A x, y \in s : x = y
    BY <1>1 DEF ColumnHoldsOne, FewInTable, AtMostOne
  <2> HIDE DEF s
  <2>2. CASE s = {}
    BY <2>2, FS_EmptySet DEF s
  <2>3. ASSUME NEW x \in s PROVE Cardinality(s) <= 1
    <3>1. s = {x}
      BY <2>1, <2>3
    <3>2. Cardinality({x}) = 1
      BY FS_Singleton
    <3> QED
      BY <3>1, <3>2
  <2> QED
    BY <2>2, <2>3 DEF s
<1>2. ForeignKeys
  BY DEF InventoryInv, Stores
<1>3. Shape
  BY DEF InventoryInv, InventoryTyped
<1>4. /\ DOMAIN req = REQS /\ DOMAIN form = Forms
      /\ \A q \in REQS : req[q].st \in {"free", "asked", "ok"} /\ req[q].h \in HOSTS \cup {NoHost}
      /\ \A f \in Forms : form[f].h \in HOSTS \cup {NoHost} /\ form[f].refs \subseteq ROWS
  BY <1>3 DEF Shape, Requests, HostDialogs, HostIds
<1>5. /\ kind \in KINDS /\ born \subseteq HOSTS \cup ROWS /\ dubious \subseteq Cells
      /\ db \in [hosts : SUBSET HOSTS, rows : SUBSET ROWS, refs : [HOSTS -> SUBSET ROWS]]
      /\ seen \in [hosts : SUBSET HOSTS, rows : SUBSET ROWS, refs : [HOSTS -> SUBSET ROWS]]
  BY <1>3 DEF Shape, Tables
<1> QED
  BY <1>1, <1>2, <1>4, <1>5 DEF InvTypeOK, ForeignKeys, Forms, Drawing

(* What nobody has asked for holds nothing.                                    *)
LEMMA UnaskedIsFew == FewInRequest(Unasked)
BY DEF FewInRequest, FewInTable, AtMostOne, Unasked, NoRefs

(* A click asks for no more references than it is given.                       *)
LEMMA AskedIsFew ==
    ASSUME NEW c, Plain(c), AtMostOne(c.refs), c.op = "newRow" => c.by = "row"
    PROVE  FewInRequest(c)
BY DEF FewInRequest, FewInTable, AtMostOne, Plain, NoRefs

(* So does the request that is put in a slot.                                  *)
LEMMA AskIsFew ==
    ASSUME ColumnHoldsOne, Column, NEW c, FewInRequest(c), Ask(c), Shape
    PROVE  \A q \in REQS : FewInRequest(req'[q])
<1>1. PICK q \in Slot : req' = [req EXCEPT ![q] = c]
  BY DEF Ask
<1> QED
  BY <1>1 DEF ColumnHoldsOne, Shape

(* A dialog that is over keeps what it had, or less.                           *)
LEMMA FinishedIsFew ==
    ASSUME Shape, NEW f \in Forms, NEW ok, form' = Finished(f, ok)
    PROVE  \A g \in Forms : form'[g].refs \subseteq form[g].refs /\ form'[g].had \subseteq form[g].had
<1>1. form \in [Forms -> HostDialogs]
  BY DEF Shape
<1>2. PICK x : x = IF ok \/ ~form[f].open THEN Shut(f)
                   ELSE [form[f] EXCEPT !.busy = FALSE]
  OBVIOUS
<1>3. form' = [form EXCEPT ![f] = x]
  BY <1>2 DEF Finished
<1>4. x.refs \subseteq form[f].refs /\ x.had \subseteq form[f].had
  <2>1. Shut(f).refs \subseteq form[f].refs /\ Shut(f).had = {}
    BY <1>1, ShutTyped
  <2>2. /\ [form[f] EXCEPT !.busy = FALSE].refs = form[f].refs
        /\ [form[f] EXCEPT !.busy = FALSE].had = form[f].had
    BY <1>1 DEF HostDialogs
  <2> QED
    BY <1>2, <2>1, <2>2
<1> QED
  BY <1>1, <1>3, <1>4

(* At first the only host has the only row.                                    *)
LEMMA ColumnInit == InvInit => ColumnHoldsOne
<1> SUFFICES ASSUME InvInit PROVE ColumnHoldsOne
  OBVIOUS
<1>1. PICK h \in OneId(HOSTS), r \in OneId(ROWS) :
         db = [hosts |-> {h}, rows |-> {r}, refs |-> [NoRefs EXCEPT ![h] = {r}]]
  BY DEF InvInit
<1>2. FewInTable(db) /\ seen = db
  BY <1>1 DEF InvInit, FewInTable, AtMostOne, NoRefs
<1>3. \A q \in REQS : req[q] = Unasked
  BY DEF InvInit
<1>4. \A f \in Forms : form[f].refs = {} /\ form[f].had = {}
  BY DEF InvInit, Forms, Closed
<1> QED
  BY <1>2, <1>3, <1>4, UnaskedIsFew DEF ColumnHoldsOne, AtMostOne

(* Every step keeps it, the requests for one.                                  *)
LEMMA ColumnStep == InventoryInv /\ ColumnHoldsOne /\ [InvNext]_ivars => ColumnHoldsOne'
<1> DEFINE Few == /\ FewInTable(db') /\ FewInTable(seen')
                  /\ \A q \in REQS : FewInRequest(req'[q])
                  /\ \A f \in Forms : AtMostOne(form'[f].refs) /\ AtMostOne(form'[f].had)
<1> SUFFICES ASSUME InventoryInv, ColumnHoldsOne, [InvNext]_ivars, Column PROVE Few
  <2>1. [InvNext]_ivars /\ Column' => Column
    <3>1. Clicks => UNCHANGED kind
      BY DEF Clicks, MountRows, MountHosts, SubmitRow, DeleteHost, DeleteRow, MoveHost, OpenHostForm,
             PickerCreates, SubmitHost
    <3>2. Handling => UNCHANGED kind
      BY DEF Handling, OpenRowForm, Dismiss_, Toggle
    <3>3. ASSUME NEW q \in REQS, Exec(q) PROVE UNCHANGED kind
      BY <3>3 DEF Exec, Read, ExecSave, ExecLinks, ExecNewRow, ExecDelRow, ExecDelHost, ExecMove,
                  Executed
    <3>4. ASSUME NEW q \in REQS, Answer(q) PROVE UNCHANGED kind
      BY <3>4 DEF Answer, Refreshed, Saved, LinksSaved, RowCreated, RowDeleted, Moved, HostDeleted,
                  Failed
    <3>7. Unmounted \/ Remounted => UNCHANGED kind
      BY DEF Unmounted, Remounted
    <3>5. InvNext => UNCHANGED kind
      BY <3>1, <3>2, <3>3, <3>4, <3>7, Zenon DEF InvNext
    <3>6. UNCHANGED ivars => UNCHANGED kind
      BY DEF ivars
    <3> QED
      BY <3>5, <3>6 DEF Column
  <2> QED
    BY <2>1 DEF ColumnHoldsOne, FewInTable, FewInRequest, AtMostOne
<1>0. /\ FewInTable(db) /\ FewInTable(seen)
      /\ \A q \in REQS : FewInRequest(req[q])
      /\ \A f \in Forms : AtMostOne(form[f].refs) /\ AtMostOne(form[f].had)
      /\ Shape /\ Stages
      /\ req \in [REQS -> Requests] /\ form \in [Forms -> HostDialogs]
      /\ db \in Tables /\ seen \in Tables
  BY DEF ColumnHoldsOne, InventoryInv, InventoryTyped, Shape
<1>1. CASE MountRows \/ MountHosts
  <2>1. PICK op \in {"hosts", "rows"} : Ask(Request(op, "none", NoHost, {}, {}))
    BY <1>1 DEF MountRows, MountHosts
  <2>2. Made(Request(op, "none", NoHost, {}, {}), op, "none", NoHost, {}, {}, {}, FALSE)
    BY Terms, RequestMade
  <2>3. FewInRequest(Request(op, "none", NoHost, {}, {}))
    <3>1. PICK c : c = Request(op, "none", NoHost, {}, {})
      OBVIOUS
    <3>2. Plain(c) /\ c.refs = {} /\ (c.op = "newRow" => c.by = "row")
      BY <2>2, <3>1 DEF Made
    <3>3. AtMostOne(c.refs)
      BY <3>2 DEF AtMostOne
    <3> QED
      BY <3>1, <3>2, <3>3, AskedIsFew
  <2> QED
    BY <1>0, <1>1, <2>1, <2>3, AskIsFew DEF MountRows, MountHosts
<1>2. CASE SubmitRow
  <2>1. Ask(Request("newRow", "row", NoHost, {}, {}))
    BY <1>2 DEF SubmitRow
  <2>2. "row" \in Bys
    BY DEF Bys
  <2>3. Made(Request("newRow", "row", NoHost, {}, {}), "newRow", "row", NoHost, {}, {}, {}, FALSE)
    BY <2>2, Terms, RequestMade
  <2>4. FewInRequest(Request("newRow", "row", NoHost, {}, {}))
    <3>1. PICK c : c = Request("newRow", "row", NoHost, {}, {})
      OBVIOUS
    <3>2. Plain(c) /\ c.refs = {} /\ (c.op = "newRow" => c.by = "row")
      BY <2>3, <3>1 DEF Made
    <3>3. AtMostOne(c.refs)
      BY <3>2 DEF AtMostOne
    <3> QED
      BY <3>1, <3>2, <3>3, AskedIsFew
  <2>5. \A f \in Forms : form'[f].refs = form[f].refs /\ form'[f].had = form[f].had
    BY <1>0, <1>2 DEF SubmitRow, HostDialogs
  <2> QED
    BY <1>0, <1>2, <2>1, <2>4, <2>5, AskIsFew DEF SubmitRow
<1>3. CASE DeleteHost
  <2>1. PICK h \in seen.hosts : Ask(Request("delHost", "none", h, {}, {}))
    BY <1>3 DEF DeleteHost
  <2>2. h \in HostIds
    BY <1>0 DEF Tables, HostIds
  <2>3. Made(Request("delHost", "none", h, {}, {}), "delHost", "none", h, {}, {}, {}, FALSE)
    BY <2>2, Terms, RequestMade
  <2>4. FewInRequest(Request("delHost", "none", h, {}, {}))
    <3>1. PICK c : c = Request("delHost", "none", h, {}, {})
      OBVIOUS
    <3>2. Plain(c) /\ c.refs = {} /\ (c.op = "newRow" => c.by = "row")
      BY <2>3, <3>1 DEF Made
    <3>3. AtMostOne(c.refs)
      BY <3>2 DEF AtMostOne
    <3> QED
      BY <3>1, <3>2, <3>3, AskedIsFew
  <2> QED
    BY <1>0, <1>3, <2>1, <2>4, AskIsFew DEF DeleteHost
<1>4. CASE DeleteRow
  <2>1. PICK r \in seen.rows : Ask(Request("delRow", "none", NoHost, {r}, {}))
    BY <1>4 DEF DeleteRow
  <2>2. {r} \in SUBSET ROWS
    BY <1>0 DEF Tables
  <2>3. Made(Request("delRow", "none", NoHost, {r}, {}), "delRow", "none", NoHost, {r}, {}, {}, FALSE)
    BY <2>2, Terms, RequestMade
  <2>4. FewInRequest(Request("delRow", "none", NoHost, {r}, {}))
    <3>1. PICK c : c = Request("delRow", "none", NoHost, {r}, {})
      OBVIOUS
    <3>2. Plain(c) /\ c.refs = {} /\ (c.op = "newRow" => c.by = "row")
      BY <2>3, <3>1 DEF Made
    <3>3. AtMostOne(c.refs)
      BY <3>2 DEF AtMostOne
    <3> QED
      BY <3>1, <3>2, <3>3, AskedIsFew
  <2> QED
    BY <1>0, <1>4, <2>1, <2>4, AskIsFew DEF DeleteRow
<1>5. CASE MoveHost
  <2>1. PICK h \in seen.hosts, to \in {{}} \cup {{r} : r \in seen.rows} :
           Ask([Request("move", "none", h, {}, to) EXCEPT !.toggled = seen.refs[h] \cup to,
                                                          !.hasty = "refs" \in dubious \/ Writing])
    BY <1>5 DEF MoveHost
  <2>2. h \in HostIds /\ h \in HOSTS /\ to \in SUBSET ROWS /\ seen.refs[h] \cup to \in SUBSET ROWS
    BY <1>0 DEF Tables, HostIds
  <2>3. AtMostOne(to)
    BY DEF AtMostOne
  <2> DEFINE b == "refs" \in dubious \/ Writing
             c == Request("move", "none", h, {}, to)
  <2>4. Made(c, "move", "none", h, {}, to, {}, FALSE)
    BY <2>2, Terms, RequestMade
  <2>5. b \in BOOLEAN
    OBVIOUS
  <2>6. PICK t : t = seen.refs[h] \cup to
    OBVIOUS
  <2> HIDE DEF b, c
  <2>7. Made([c EXCEPT !.toggled = t, !.hasty = b], "move", "none", h, {}, to, t, b)
    BY <2>2, <2>4, <2>5, <2>6, Marked
  <2>8. FewInRequest([c EXCEPT !.toggled = t, !.hasty = b])
    <3>1. PICK d : d = [c EXCEPT !.toggled = t, !.hasty = b]
      OBVIOUS
    <3>2. Plain(d) /\ d.refs = to /\ d.op = "move"
      BY <2>7, <3>1 DEF Made
    <3> QED
      BY <2>3, <3>1, <3>2, AskedIsFew
  <2>9. Ask([c EXCEPT !.toggled = t, !.hasty = b])
    BY <2>1, <2>6 DEF b, c
  <2> QED
    BY <1>0, <1>5, <2>8, <2>9, AskIsFew DEF MoveHost
<1>6. ASSUME NEW f, NEW h, OpenHostForm(f, h) PROVE Few
  <2>1. f \in {"new", "edit"} /\ f \in Forms /\ h \in HostIds /\ f \in Bys
    BY <1>0, <1>6 DEF OpenHostForm, Forms, Bys, Tables, HostIds
  <2>2. Made(Request("rows", f, h, {}, {}), "rows", f, h, {}, {}, {}, FALSE)
    BY <2>1, Terms, RequestMade
  <2>3. FewInRequest(Request("rows", f, h, {}, {}))
    <3>1. PICK c : c = Request("rows", f, h, {}, {})
      OBVIOUS
    <3>2. Plain(c) /\ c.refs = {} /\ (c.op = "newRow" => c.by = "row")
      BY <2>2, <3>1 DEF Made
    <3>3. AtMostOne(c.refs)
      BY <3>2 DEF AtMostOne
    <3> QED
      BY <3>1, <3>2, <3>3, AskedIsFew
  <2>4. PICK q \in Slot :
          req' = [x \in REQS |-> IF x = q THEN Request("rows", f, h, {}, {})
                                 ELSE [req[x] EXCEPT !.late = @ \/ req[x].by = f]]
    BY <1>6 DEF OpenHostForm
  <2>5. \A x \in REQS : FewInRequest([req[x] EXCEPT !.late = @ \/ req[x].by = f])
    BY <1>0 DEF FewInRequest, Requests
  <2>6. \A x \in REQS : FewInRequest(req'[x])
    BY <2>3, <2>4, <2>5
  <2>7. /\ AtMostOne(form'[f].refs) /\ AtMostOne(form'[f].had)
        /\ \A g \in Forms \ {f} : form'[g] = form[g]
    <3>1. AtMostOne(Had(f, h))
      BY <1>0, <1>6, <2>1 DEF OpenHostForm, Had, AtMostOne, FewInTable, Tables
    <3>2. form'[f].refs = Had(f, h) /\ form'[f].had = Had(f, h)
      BY <1>0, <1>6, <2>1 DEF OpenHostForm, Closed
    <3>3. \A g \in Forms \ {f} : form'[g] = form[g]
      BY <1>0, <1>6, <2>1 DEF OpenHostForm
    <3> QED
      BY <3>1, <3>2, <3>3
  <2> QED
    BY <1>0, <1>6, <2>6, <2>7 DEF OpenHostForm
<1>7. ASSUME NEW f \in Forms, SubmitHost(f) PROVE Few
  <2>1. f \in {"new", "edit"} /\ f \in Bys /\ form[f] \in HostDialogs /\ form[f].h \in HostIds
        /\ form[f].refs \in SUBSET ROWS /\ form[f].toggled \in SUBSET ROWS /\ (~form[f].sure) \in BOOLEAN
    BY <1>0, <1>7 DEF SubmitHost, Forms, Bys, HostDialogs
  <2>2. PICK b, t, c : /\ b \in BOOLEAN /\ t \in SUBSET ROWS
                       /\ b = ~form[f].sure /\ t = form[f].toggled
                       /\ c = Request("save", f, form[f].h, {}, form[f].refs)
    BY <2>1
  <2>3. Made(c, "save", f, form[f].h, {}, form[f].refs, {}, FALSE)
    BY <2>1, <2>2, Terms, RequestMade
  <2>4. Made([c EXCEPT !.toggled = t, !.hasty = b], "save", f, form[f].h, {}, form[f].refs, t, b)
    BY <2>2, <2>3, Marked
  <2>5. FewInRequest([c EXCEPT !.toggled = t, !.hasty = b])
    <3>1. PICK d : d = [c EXCEPT !.toggled = t, !.hasty = b]
      OBVIOUS
    <3>2. Plain(d) /\ d.refs = form[f].refs /\ d.op = "save"
      BY <2>4, <3>1 DEF Made
    <3> QED
      BY <1>0, <3>1, <3>2, AskedIsFew
  <2>6. Ask([c EXCEPT !.toggled = t, !.hasty = b])
    BY <1>7, <2>2 DEF SubmitHost
  <2>7. \A g \in Forms : form'[g].refs = form[g].refs /\ form'[g].had = form[g].had
    BY <1>0, <1>7 DEF SubmitHost, HostDialogs
  <2> QED
    BY <1>0, <1>7, <2>5, <2>6, <2>7, AskIsFew DEF SubmitHost
<1>8. ASSUME NEW f, PickerCreates(f) PROVE Few
  BY <1>8 DEF PickerCreates, Column
<1>9. CASE OpenRowForm
  <2>1. \A x \in REQS : FewInRequest(req'[x])
    BY <1>0, <1>9 DEF OpenRowForm, FewInRequest, Requests
  <2>2. \A g \in Forms : (form'[g].refs = {} /\ form'[g].had = {}) \/ form'[g] = form[g]
    BY <1>0, <1>9 DEF OpenRowForm, Closed
  <2>3. AtMostOne({})
    BY DEF AtMostOne
  <2>4. \A g \in Forms : AtMostOne(form'[g].refs) /\ AtMostOne(form'[g].had)
    BY <1>0, <2>2, <2>3
  <2>5. UNCHANGED <<db, seen>>
    BY <1>9 DEF OpenRowForm
  <2> QED
    BY <1>0, <2>1, <2>4, <2>5
<1>10. ASSUME NEW f \in Forms, Dismiss_(f) PROVE Few
  <2>1. Shut(f).refs \subseteq form[f].refs /\ Shut(f).had = {}
    BY <1>0, ShutTyped
  <2>2. \A g \in Forms : form'[g].refs \subseteq form[g].refs /\ form'[g].had \subseteq form[g].had
    BY <1>0, <1>10, <2>1 DEF Dismiss_
  <2> QED
    BY <1>0, <1>10, <2>2 DEF Dismiss_, AtMostOne
<1>11. ASSUME NEW f \in Forms, NEW r, Toggle(f, r) PROVE Few
  <2>1. \A g \in Forms : /\ form'[g].refs \subseteq form[g].refs \/ form'[g].refs = {r}
                         /\ form'[g].had = form[g].had
    BY <1>0, <1>11 DEF Toggle, HostDialogs
  <2> QED
    BY <1>0, <1>11, <2>1 DEF Toggle, AtMostOne
<1>12. ASSUME NEW q \in REQS, Read(q) PROVE Few
  <2>1. PICK part \in req[q].parts :
          req' = [req EXCEPT
             ![q].got = [f \in Cells |-> IF f \in part THEN db[f] ELSE @[f]],
             ![q].parts = @ \ {part},
             ![q].st = IF req[q].parts = {part} THEN "ok" ELSE "asked"]
    BY <1>12 DEF Read
  <2>2. /\ req'[q].refs = req[q].refs /\ req'[q].op = req[q].op /\ req'[q].by = req[q].by
        /\ req'[q].got = [f \in Cells |-> IF f \in part THEN db[f] ELSE req[q].got[f]]
        /\ \A x \in REQS \ {q} : req'[x] = req[x]
    <3>1. PICK c \in Requests : c = req[q]
      BY <1>0
    <3>2. PICK m : m = [f \in Cells |-> IF f \in part THEN db[f] ELSE c.got[f]]
      OBVIOUS
    <3>3. PICK u, v : u = c.parts \ {part} /\ v = (IF c.parts = {part} THEN "ok" ELSE "asked")
      OBVIOUS
    <3>4. req' = [req EXCEPT ![q] = [c EXCEPT !.got = m, !.parts = u, !.st = v]]
      BY <1>0, <2>1, <3>1, <3>2, <3>3 DEF Requests
    <3>5. req'[q] = [c EXCEPT !.got = m, !.parts = u, !.st = v] /\ \A x \in REQS \ {q} : req'[x] = req[x]
      BY <1>0, <3>4
    <3>6. /\ req'[q].refs = c.refs /\ req'[q].op = c.op /\ req'[q].by = c.by /\ req'[q].got = m
      BY <3>5 DEF Requests
    <3> QED
      BY <3>1, <3>2, <3>5, <3>6
  <2>4. req'[q].got.refs \in {req[q].got.refs, db.refs}
    BY <2>2 DEF Cells
  <2>3. \A x \in REQS : FewInRequest(req'[x])
    BY <1>0, <2>2, <2>4 DEF FewInRequest, FewInTable
  <2> QED
    BY <1>0, <1>12, <2>3 DEF Read
<1>13. ASSUME NEW q \in REQS, NEW tables, NEW done, Executed(q, tables, done),
              FewInTable(tables), FewInRequest(done), done \in Requests
       PROVE  Few
  <2>1. \A x \in REQS \ {q} :
           /\ req'[x].refs = req[x].refs /\ req'[x].op = req[x].op /\ req'[x].by = req[x].by
           /\ req'[x].got = req[x].got
    BY <1>0, <1>13 DEF Executed, Requests
  <2>2. req'[q] = [done EXCEPT !.st = "ok"]
    BY <1>13 DEF Executed
  <2>3. FewInRequest([done EXCEPT !.st = "ok"])
    BY <1>13 DEF FewInRequest, Requests
  <2>4. \A x \in REQS : FewInRequest(req'[x])
    BY <1>0, <2>1, <2>2, <2>3 DEF FewInRequest
  <2> QED
    BY <1>0, <1>13, <2>4 DEF Executed
<1>14. ASSUME NEW q \in REQS PROVE req[q] \in Requests /\ FewInRequest(req[q]) /\ StageOf(req[q])
  BY <1>0 DEF Stages
<1>15. ASSUME NEW q \in REQS, ExecSave(q) PROVE Few
  <2>1. PICK h, t, d :
          /\ h \in HOSTS /\ Executed(q, t, d)
          /\ t = [db EXCEPT !.hosts = @ \cup {h}, !.refs[h] = req[q].refs]
          /\ \E r \in {{"created"}, {}} : d = [req[q] EXCEPT !.h = h, !.r = r]
    <3>1. PICK h \in IF req[q].h = NoHost THEN OneId(HOSTS \ born) ELSE db.hosts \cap {req[q].h} :
            Executed(q, [db EXCEPT !.hosts = @ \cup {h}, !.refs[h] = req[q].refs],
                     [req[q] EXCEPT !.h = h, !.r = IF req[q].h = NoHost THEN {"created"} ELSE {}])
      BY <1>15 DEF ExecSave
    <3>2. h \in HOSTS
      BY <1>0 DEF OneId, Tables
    <3> QED
      BY <3>1, <3>2
  <2>2. FewInTable(t)
    BY <1>0, <1>14, <2>1 DEF FewInTable, FewInRequest, Tables
  <2>3. PICK r \in {{"created"}, {}} : d = [req[q] EXCEPT !.h = h, !.r = r]
    BY <2>1
  <2>4. FewInRequest(d) /\ d \in Requests
    <3>1. h \in HostIds /\ r \in SUBSET (ROWS \cup {"created"})
      BY <2>1, <2>3 DEF HostIds
    <3>2. PICK c \in Requests : c = req[q] /\ FewInRequest(c)
      BY <1>14
    <3>3. d = [c EXCEPT !.h = h, !.r = r]
      BY <2>3, <3>2
    <3> HIDE DEF Few
    <3>4. d \in Requests
      BY <3>1, <3>2, <3>3 DEF Requests
    <3>5. d.refs = c.refs /\ d.got = c.got /\ d.op = c.op /\ d.by = c.by
      BY <3>1, <3>2, <3>3 DEF Requests
    <3> QED
      BY <3>2, <3>4, <3>5 DEF FewInRequest
  <2> QED
    BY <1>13, <2>1, <2>2, <2>4
<1>16. ASSUME NEW q \in REQS, ExecLinks(q) PROVE Few
  <2>1. PICK t : t = [db EXCEPT !.refs[req[q].h] = req[q].refs] /\ Executed(q, t, req[q])
    BY <1>16 DEF ExecLinks
  <2>2. FewInTable(t)
    BY <1>0, <1>14, <2>1 DEF FewInTable, FewInRequest, Tables
  <2> QED
    BY <1>13, <1>14, <2>1, <2>2
<1>17. ASSUME NEW q \in REQS, ExecNewRow(q) PROVE Few
  <2>1. PICK r, t, d : /\ r \in ROWS /\ Executed(q, t, d)
                       /\ t = [db EXCEPT !.rows = @ \cup {r}] /\ d = [req[q] EXCEPT !.r = {r}]
    BY <1>17 DEF ExecNewRow, OneId
  <2>2. FewInTable(t)
    BY <1>0, <2>1 DEF FewInTable, Tables
  <2>3. FewInRequest(d) /\ d \in Requests
    BY <1>14, <2>1 DEF FewInRequest, Requests
  <2> QED
    BY <1>13, <2>1, <2>2, <2>3
<1>18. ASSUME NEW q \in REQS, ExecDelRow(q) PROVE Few
  <2>1. PICK t : /\ t = [db EXCEPT !.rows = @ \ req[q].r, !.refs = [h \in HOSTS |-> @[h] \ req[q].r]]
                 /\ Executed(q, t, req[q])
    BY <1>18 DEF ExecDelRow
  <2>2. \A h \in HOSTS : t.refs[h] = db.refs[h] \ req[q].r
    BY <1>0, <2>1 DEF Tables
  <2>3. FewInTable(t)
    BY <1>0, <2>2 DEF FewInTable, AtMostOne
  <2> QED
    BY <1>13, <1>14, <2>1, <2>3
<1>19. ASSUME NEW q \in REQS, ExecDelHost(q) PROVE Few
  <2>1. PICK t : /\ t = [db EXCEPT !.hosts = @ \ {req[q].h}, !.refs[req[q].h] = {}]
                 /\ Executed(q, t, req[q])
    BY <1>19 DEF ExecDelHost
  <2>2. FewInTable(t)
    BY <1>0, <2>1 DEF FewInTable, AtMostOne, Tables
  <2> QED
    BY <1>13, <1>14, <2>1, <2>2
<1>20. ASSUME NEW q \in REQS, ExecMove(q) PROVE Few
  <2>1. PICK t : /\ t = [db EXCEPT !.refs[req[q].h] = IF req[q].h \in db.hosts THEN req[q].refs ELSE @]
                 /\ Executed(q, t, req[q])
    BY <1>20 DEF ExecMove
  <2>2. FewInTable(t)
    BY <1>0, <1>14, <2>1 DEF FewInTable, FewInRequest, Tables
  <2> QED
    BY <1>13, <1>14, <2>1, <2>2
<1>21. ASSUME NEW q \in REQS, NEW c, req' = [req EXCEPT ![q] = c], FewInRequest(c)
       PROVE  \A x \in REQS : FewInRequest(req'[x])
  BY <1>0, <1>21
<1>22. \A f \in Forms : \A ok : form' = Finished(f, ok) =>
          \A g \in Forms : AtMostOne(form'[g].refs) /\ AtMostOne(form'[g].had)
  <2>1. ASSUME NEW f \in Forms, NEW ok, form' = Finished(f, ok)
        PROVE  \A g \in Forms : AtMostOne(form'[g].refs) /\ AtMostOne(form'[g].had)
    <3>1. \A g \in Forms : form'[g].refs \subseteq form[g].refs /\ form'[g].had \subseteq form[g].had
      BY <1>0, <2>1, FinishedIsFew
    <3> QED
      BY <1>0, <3>1 DEF AtMostOne
  <2> QED
    BY <2>1
<1>23. UNCHANGED form => \A f \in Forms : AtMostOne(form'[f].refs) /\ AtMostOne(form'[f].had)
  BY <1>0
<1>24. FewInRequest(Request("hosts", "none", NoHost, {}, {}))
  <2>1. Made(Request("hosts", "none", NoHost, {}, {}), "hosts", "none", NoHost, {}, {}, {}, FALSE)
    BY Terms, RequestMade
  <2>2. PICK c : c = Request("hosts", "none", NoHost, {}, {})
    OBVIOUS
  <2>3. Plain(c) /\ c.refs = {} /\ c.op = "hosts"
    BY <2>1, <2>2 DEF Made
  <2>4. AtMostOne(c.refs)
    BY <2>3 DEF AtMostOne
  <2> QED
    BY <2>2, <2>3, <2>4, AskedIsFew
<1>25. ASSUME NEW q \in REQS, Refreshed(q) PROVE Few
  <2>1. seen'.refs \in {req[q].got.refs, seen.refs}
    BY <1>25 DEF Refreshed, Cells
  <2>2. FewInTable(seen')
    BY <1>0, <1>14, <2>1 DEF FewInTable, FewInRequest
  <2>3. UNCHANGED <<form, db>> /\ req' = [req EXCEPT ![q] = Unasked]
    BY <1>25 DEF Refreshed, TakeLinks
  <2> QED
    BY <1>0, <1>21, <1>23, <2>2, <2>3, UnaskedIsFew
<1>26. ASSUME NEW q \in REQS, Saved(q) PROVE Few
  <2>1. req[q].by \in Forms
    BY <1>14, <1>26 DEF Saved, StageOf, Forms
  <2>2. seen' = seen \/ seen' = [seen EXCEPT !.hosts = @ \cup {req[q].h}, !.refs[req[q].h] = req[q].refs]
    BY <1>26 DEF Saved
  <2>3. FewInTable(seen')
    BY <1>0, <1>14, <2>2 DEF FewInTable, FewInRequest, Tables
  <2>4. UNCHANGED db /\ req' = [req EXCEPT ![q] = Unasked] /\ form' = Finished(req[q].by, TRUE)
    BY <1>26 DEF Saved
  <2> QED
    BY <1>0, <1>21, <1>22, <2>1, <2>3, <2>4, UnaskedIsFew
<1>27. ASSUME NEW q \in REQS, LinksSaved(q) PROVE Few
  <2>1. req[q].by \in Forms
    BY <1>14, <1>27 DEF LinksSaved, StageOf, Forms
  <2>2. seen' = [seen EXCEPT !.refs[req[q].h] = req[q].refs]
    BY <1>27 DEF LinksSaved
  <2>3. FewInTable(seen')
    BY <1>0, <1>14, <2>2 DEF FewInTable, FewInRequest, Tables
  <2>4. UNCHANGED db /\ req' = [req EXCEPT ![q] = Unasked] /\ form' = Finished(req[q].by, TRUE)
    BY <1>27 DEF LinksSaved
  <2> QED
    BY <1>0, <1>21, <1>22, <2>1, <2>3, <2>4, UnaskedIsFew
<1>28. ASSUME NEW q \in REQS, RowCreated(q) PROVE Few
  <2>1. req[q].by = "row" /\ "row" \in Forms
    BY <1>14, <1>28 DEF RowCreated, FewInRequest, Forms
  <2>2. FewInTable(seen')
    BY <1>0, <1>28 DEF RowCreated, FewInTable, Tables
  <2>3. UNCHANGED db /\ req' = [req EXCEPT ![q] = Unasked] /\ form' = Finished("row", TRUE)
    BY <1>28, <2>1 DEF RowCreated
  <2> QED
    BY <1>0, <1>21, <1>22, <2>1, <2>2, <2>3, UnaskedIsFew
<1>29. ASSUME NEW q \in REQS, RowDeleted(q) PROVE Few
  <2>1. FewInTable(seen')
    BY <1>0, <1>29 DEF RowDeleted, FewInTable, Tables
  <2>2. /\ UNCHANGED <<db, form>>
        /\ \/ req' = [req EXCEPT ![q] = Unasked]
           \/ req' = [req EXCEPT ![q] = Request("hosts", "none", NoHost, {}, {})]
    BY <1>29 DEF RowDeleted
  <2> QED
    BY <1>0, <1>21, <1>23, <1>24, <2>1, <2>2, UnaskedIsFew
<1>30. ASSUME NEW q \in REQS, Moved(q) PROVE Few
  BY <1>0, <1>21, <1>23, <1>24, <1>30 DEF Moved
<1>31. ASSUME NEW q \in REQS, HostDeleted(q) PROVE Few
  <2>1. FewInTable(seen')
    BY <1>0, <1>31 DEF HostDeleted, FewInTable, Tables
  <2> QED
    BY <1>0, <1>21, <1>23, <1>31, <2>1, UnaskedIsFew DEF HostDeleted
<1>32. ASSUME NEW q \in REQS, Failed(q) PROVE Few
  <2>1. UNCHANGED <<db, seen>> /\ req' = [req EXCEPT ![q] = Unasked]
    BY <1>32 DEF Failed
  <2>2. UNCHANGED form \/ (req[q].by \in Forms /\ form' = Finished(req[q].by, FALSE))
    BY <1>14, <1>32 DEF Failed, StageOf, Forms
  <2> QED
    BY <1>0, <1>21, <1>22, <1>23, <2>1, <2>2, UnaskedIsFew
<1>33. CASE UNCHANGED ivars
  BY <1>0, <1>33 DEF ivars
<1>34. CASE Clicks
  <2>1. DOMAIN form = Forms
    BY <1>0
  <2> QED
    BY <1>1, <1>2, <1>3, <1>4, <1>5, <1>6, <1>7, <1>8, <1>34, <2>1 DEF Clicks
<1>35. CASE Handling
  <2>1. DOMAIN form = Forms
    BY <1>0
  <2> QED
    BY <1>9, <1>10, <1>11, <1>35, <2>1 DEF Handling
<1>36. ASSUME NEW q \in REQS, Exec(q) PROVE Few
  BY <1>12, <1>15, <1>16, <1>17, <1>18, <1>19, <1>20, <1>36 DEF Exec
<1>37. ASSUME NEW q \in REQS, Answer(q) PROVE Few
  BY <1>25, <1>26, <1>27, <1>28, <1>29, <1>30, <1>31, <1>32, <1>37 DEF Answer
<1>38. CASE Unmounted
  <2>1. \A x \in REQS : FewInRequest(req'[x])
    BY <1>0, <1>38 DEF Unmounted, Unheard, FewInRequest, Requests
  <2>2. \A g \in Forms : \/ form'[g] = form[g]
                         \/ /\ form'[g].refs \in {form[g].had, {}}
                            /\ form'[g].had \in {form[g].had, {}}
    BY <1>0, <1>38 DEF Unmounted, Away, Closed, HostDialogs
  <2> QED
    BY <1>0, <1>38, <2>1, <2>2 DEF Unmounted, AtMostOne
<1>39. CASE Remounted
  <2>1. \A x \in REQS : FewInRequest(req'[x])
    <3>1. CASE UNCHANGED req
      BY <1>0, <3>1
    <3>2. CASE ~UNCHANGED req
      <4>1. PICK q, c : /\ q \in Slot /\ c = Request("rows", "edit", form["edit"].h, {}, {})
                        /\ req' = [req EXCEPT ![q] = c]
        BY <1>39, <3>2 DEF Remounted
      <4>2. "edit" \in Bys /\ form["edit"].h \in HostIds /\ q \in REQS
        BY <1>0, <4>1 DEF Bys, Forms, HostDialogs, Slot, OneId
      <4>3. Made(c, "rows", "edit", form["edit"].h, {}, {}, {}, FALSE)
        BY <4>1, <4>2, Terms, RequestMade
      <4>4. Plain(c) /\ c.refs = {} /\ c.op = "rows" /\ AtMostOne({})
        BY <4>3 DEF Made, AtMostOne
      <4> QED
        BY <1>21, <4>1, <4>2, <4>4, AskedIsFew
    <3> QED
      BY <3>1, <3>2
  <2>2. \A g \in Forms : form'[g].refs = form[g].refs /\ form'[g].had = form[g].had
    BY <1>0, <1>39 DEF Remounted, HostDialogs
  <2> QED
    BY <1>0, <1>39, <2>1, <2>2 DEF Remounted
<1> QED
  BY <1>33, <1>34, <1>35, <1>36, <1>37, <1>38, <1>39 DEF InvNext

(* Types: a column never holds two references, however late the answer that    *)
(* fills a form.                                                               *)
THEOREM InventoryTypesHold == InvSpec => []InvTypeOK
<1>1. InventoryInv /\ ColumnHoldsOne /\ [InvNext]_ivars => InventoryInv'
  BY InvStep
<1>2. InvInit => Drawing
  BY DEF InvInit, Drawing
<1> QED
  BY InvInitially, ColumnInit, <1>1, <1>2, ColumnStep, DrawingStep, InventoryTypesFollow, PTL DEF InvSpec
============================================================================
