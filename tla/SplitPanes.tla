----------------------------- MODULE SplitPanes -----------------------------
(***************************************************************************)
(* The split layout of one tab as the tree it is: the tree functions,      *)
(* splitPane, closePane and setSplitRatio of stores/useSessionsStore.ts,   *)
(* and components/SplitLayout.tsx with its dividers and its groups of      *)
(* panes that share what is typed; with them what the end of a session and *)
(* a reconnection do to the panes beside it.  SessionTabs has the calls    *)
(* with a layout as a set of leaves; here is what it leaves out, the places. *)
(* A layout maps the path of each of its nodes, the turns from the root,   *)
(* to the node: a leaf, or a split with its ratio in tenths and `born`,    *)
(* the placeholder it was made for, which names it.  What the code does by *)
(* recursion on nodes is done here to all paths at once.                   *)
(***************************************************************************)
EXTENDS Integers, Sequences, FiniteSets

CONSTANTS SPLITS,     \* bound: splits and reconnections of the tab
          CLICKS      \* bound: splits, closes, toggles, drags and reconnections clicked

ASSUME SplitPanesAssumption == SPLITS \in Nat /\ CLICKS \in Nat

VARIABLES
    tree,      \* tab.layout
    status,    \* tab.status.kind
    single,    \* the session of tab.status
    gone,      \* the tab is closed
    over,      \* the sessions whose session-closed was heard
    loop,      \* autoReconnecting has the tab
    redials,   \* the reconnect calls on their way
    splits,    \* the splitPane calls on their way
    closes,    \* the closePane calls on their way, with the layout they read
    group,     \* broadcastGroups[tab]
    drag,      \* the divider being dragged, by its path
    made, clicks

tabVars == <<status, single, gone, over, loop, redials>>
paneVars == <<tree, tabVars, splits, closes, group, drag, made, clicks>>

----------------------------------------------------------------------------
(* Trees *)

Turns == {"first", "second"}                    \* SplitPath is a list of them
Across(turn) == IF turn = "first" THEN "second" ELSE "first"

Leaf(i) == [kind |-> "leaf", id |-> i]
Split(b) == [kind |-> "split", ratio |-> 5, born |-> b]

NoTree == [p \in {} |-> Leaf(0)]                \* layout undefined, and removeLeaf's null
OnlyLeaf(i) == [p \in {<<>>} |-> Leaf(i)]

LeavesOf(t) == {p \in DOMAIN t : t[p].kind = "leaf"}
SplitsOf(t) == {p \in DOMAIN t : t[p].kind = "split"}
IsLeaf(t) == <<>> \in LeavesOf(t)
Ids(t) == {t[p].id : p \in LeavesOf(t)}
At(t, target) == {p \in LeavesOf(t) : t[p].id = target}

(* Mutant: the new pane comes first. *)
SplitBefore(t, target, new) ==
    LET hit == At(t, target) IN
    [p \in DOMAIN t \cup {Append(h, turn) : h \in hit, turn \in Turns} |->
        IF p \in hit THEN Split(new)
        ELSE IF p \in DOMAIN t THEN t[p]
        ELSE Leaf(IF p[Len(p)] = "first" THEN new ELSE target)]

SplitAt(t, target, new) ==
    LET hit == At(t, target) IN
    [p \in DOMAIN t \cup {Append(h, turn) : h \in hit, turn \in Turns} |->
        IF p \in hit THEN Split(new)
        ELSE IF p \in DOMAIN t THEN t[p]
        ELSE Leaf(IF p[Len(p)] = "first" THEN target ELSE new)]

ReplaceLeaf(t, from, to) == [p \in DOMAIN t |-> IF p \in At(t, from) THEN Leaf(to) ELSE t[p]]

(* r is p, or below it. *)
Begins(p, r) == Len(p) <= Len(r) /\ \A i \in 1..Len(p) : p[i] = r[i]

(* The leaf at p is gone, and what stands beside it takes the place of their split. *)
Parent(p) == SubSeq(p, 1, Len(p) - 1)
Beside(p) == Append(Parent(p), Across(p[Len(p)]))
MovedTo(p, r) == IF Begins(Beside(p), r) THEN Parent(p) \o SubSeq(r, Len(p) + 1, Len(r)) ELSE r
CameFrom(p, r) == IF Begins(Parent(p), r) THEN Beside(p) \o SubSeq(r, Len(p), Len(r)) ELSE r
WithoutNode(t, p) ==
    [r \in {MovedTo(p, s) : s \in DOMAIN t \ {p, Parent(p)}} |-> t[CameFrom(p, r)]]

(* The tree without one leaf, simplified: each pane is there once (PanesTypeOK). *)
RemoveLeaf(t, target) ==
    IF At(t, target) = {} THEN t
    ELSE LET p == CHOOSE p \in At(t, target) : TRUE IN
         IF p = <<>> THEN NoTree ELSE WithoutNode(t, p)

(* Between one and nine tenths. *)
Within(r) == IF r < 1 THEN 1 ELSE IF r > 9 THEN 9 ELSE r

(* Mutant: the end of the path is not looked for. *)
SetRatioAbove(t, path, r) ==
    IF <<>> \in SplitsOf(t) THEN [t EXCEPT ![<<>>].ratio = Within(r)] ELSE t

(* A path that leads nowhere, or to a leaf, changes nothing. *)
SetRatioAt(t, path, r) == IF path \in SplitsOf(t) THEN [t EXCEPT ![path].ratio = Within(r)] ELSE t

(* Its dividers, each with the path by which it is rendered. *)
DividersOf(t) == {[born |-> t[p].born, ratio |-> t[p].ratio, path |-> p] : p \in SplitsOf(t)}

(* The leaf at p is rendered before the one at r. *)
LeftOf(p, r) == \E i \in DOMAIN p \cap DOMAIN r :
    p[i] = "first" /\ r[i] = "second" /\ \A j \in 1..(i - 1) : p[j] = r[j]

----------------------------------------------------------------------------
(* State *)

Placeholder(i) == i % 2 = 0      \* "pending-..."; split n has placeholder 2n and session 2n + 1,
                                 \* reconnection n session 2n + 1
NoDrag == [on |-> FALSE, path |-> <<>>, born |-> 0, moved |-> FALSE]

(* What is on the screen, and which of it comes before which: nothing while
   the tab is connecting, and without a layout only an open session. *)
Shown == IF gone \/ status = "connecting" THEN {}
         ELSE IF tree # NoTree THEN Ids(tree)
         ELSE IF status = "open" THEN {single} ELSE {}
Order == {o \in Shown \X Shown :
             \E p \in At(tree, o[1]), r \in At(tree, o[2]) : LeftOf(p, r)}

PanesInit ==
    /\ tree = NoTree /\ status = "open" /\ single = 1 /\ gone = FALSE
    /\ over = {} /\ loop = FALSE /\ redials = {}
    /\ splits = {} /\ closes = {} /\ group = {} /\ drag = NoDrag
    /\ made = 0 /\ clicks = 0

(* While the mouse drags a divider it clicks nothing else. *)
Clicked == clicks < CLICKS /\ clicks' = clicks + 1 /\ ~drag.on

(* A divider keeps being dragged when the tree changes under it. *)
Answered == /\ drag' = [drag EXCEPT !.moved = @ \/ (drag.on /\ tree' # tree)]
            /\ UNCHANGED <<group, made, clicks>>

----------------------------------------------------------------------------
(* Splitting: the saved password is read, a placeholder shown, a session
   opened and put in its place. *)

Pend(s) == 2 * s.n
New(s) == 2 * s.n + 1
AskedFor(x) == \E s \in splits : s.of = x /\ s.st = "asked"     \* the pane's `busy`
WithSplit(s, st) == (splits \ {s}) \cup {[s EXCEPT !.st = st]}

AskSplit(x) ==
    /\ x \in Shown /\ ~Placeholder(x) /\ ~AskedFor(x) /\ made < SPLITS
    /\ Clicked
    /\ made' = made + 1
    /\ splits' = splits \cup {[n |-> made + 1, of |-> x, st |-> "asked"]}
    /\ UNCHANGED <<tree, tabVars, closes, group, drag>>

SplitPane(s) ==
    /\ s.st = "asked"
    /\ IF gone
       THEN splits' = splits \ {s} /\ UNCHANGED tree
       ELSE /\ splits' = WithSplit(s, "opening")
            /\ tree' = SplitAt(IF tree = NoTree THEN OnlyLeaf(s.of) ELSE tree, s.of, Pend(s))
    /\ Answered /\ UNCHANGED <<tabVars, closes>>

SplitResolves(s) ==
    /\ s.st = "opening"
    /\ splits' = splits \ {s}
    /\ tree' = ReplaceLeaf(tree, Pend(s), New(s))
    /\ Answered /\ UNCHANGED <<tabVars, closes>>

SplitRejects(s) ==
    LET reverted == RemoveLeaf(tree, Pend(s)) IN
    /\ s.st = "opening"
    /\ splits' = splits \ {s}
    /\ tree' = IF IsLeaf(reverted) THEN NoTree ELSE reverted
    /\ Answered /\ UNCHANGED <<tabVars, closes>>

----------------------------------------------------------------------------
(* Closing a pane, a placeholder's included *)

ClosePane(x) ==
    /\ x \in Shown /\ ~AskedFor(x)
    /\ Clicked
    /\ closes' = closes \cup {[id |-> x, read |-> tree]}
    /\ UNCHANGED <<tree, tabVars, splits, group, drag, made>>

(* closeTab, which closes the other sessions first, is one step here. *)
TabGone == gone' = TRUE /\ tree' = NoTree /\ UNCHANGED <<status, single>>

(* Mutant: a single leaf stays a layout. *)
PaneClosedOnly(c) ==
    LET next == RemoveLeaf(c.read, c.id) IN
    /\ closes' = closes \ {c}
    /\ IF gone THEN UNCHANGED <<tree, status, single, gone>>
       ELSE IF next = NoTree THEN TabGone
       ELSE tree' = next /\ UNCHANGED <<status, single, gone>>
    /\ Answered /\ UNCHANGED <<over, loop, redials, splits>>

(* The layout written is the one read before the session was closed. *)
PaneClosed(c) ==
    LET next == RemoveLeaf(c.read, c.id) IN
    /\ closes' = closes \ {c}
    /\ IF gone THEN UNCHANGED <<tree, status, single, gone>>
       ELSE IF next = NoTree THEN TabGone
       ELSE IF IsLeaf(next)
       THEN tree' = NoTree /\ status' = "open" /\ single' = next[<<>>].id /\ UNCHANGED gone
       ELSE tree' = next /\ UNCHANGED <<status, single, gone>>
    /\ Answered /\ UNCHANGED <<over, loop, redials, splits>>

----------------------------------------------------------------------------
(* The end of a session, and reconnecting *)

(* session-closed of a pane that is on the screen, because the shell ended, the
   connection broke or closePane closed it: markClosed marks the whole tab, and
   maybeAutoReconnect starts unless the tab is local, the setting is off or it
   runs already. *)
SessionEnds(x) ==
    /\ x \in Shown /\ ~Placeholder(x) /\ x \notin over
    /\ over' = over \cup {x}
    /\ status' = "closed"
    /\ loop' \in {loop, TRUE}
    /\ UNCHANGED <<tree, single, gone, redials, splits, closes, group, drag, made, clicks>>

Redialling == \E r \in redials : r.auto

(* reconnect: the layout goes, whatever stands in it. *)
Redial(auto) ==
    /\ status = "closed" /\ ~gone /\ made < SPLITS
    /\ made' = made + 1
    /\ redials' = redials \cup {[n |-> made + 1, auto |-> auto]}
    /\ status' = "connecting" /\ tree' = NoTree
    /\ drag' = [drag EXCEPT !.moved = @ \/ (drag.on /\ tree # NoTree)]
    /\ UNCHANGED <<single, gone, over, loop, splits, closes, group>>

(* The button of the screen that says the tab is disconnected. *)
Reconnect == tree = NoTree /\ Clicked /\ Redial(FALSE)

(* One round of maybeAutoReconnect, its delay over. *)
AutoReconnect == loop /\ ~Redialling /\ Redial(TRUE) /\ UNCHANGED clicks

(* The tab is not closed any more, or not there, or four rounds have failed, or
   the setting is off. *)
LoopStops ==
    /\ loop /\ ~Redialling
    /\ loop' = FALSE
    /\ UNCHANGED <<tree, status, single, gone, over, redials, splits, closes, group, drag, made, clicks>>

RedialEnds(r) ==
    /\ redials' = redials \ {r}
    /\ UNCHANGED <<tree, gone, over, splits, closes, group, drag, made, clicks>>

(* What stands in the layout by then stays, the status names the new session. *)
RedialResolves(r) ==
    /\ IF gone THEN UNCHANGED <<status, single>>
       ELSE status' = "open" /\ single' = 2 * r.n + 1
    /\ loop' = (loop /\ ~r.auto)
    /\ RedialEnds(r)

RedialRejects(r) ==
    /\ status' = IF gone THEN status ELSE "closed"
    /\ UNCHANGED <<single, loop>>
    /\ RedialEnds(r)

----------------------------------------------------------------------------
(* Dividers *)

StartDrag(d) ==
    /\ Clicked
    /\ drag' = [on |-> TRUE, path |-> d.path, born |-> d.born, moved |-> FALSE]
    /\ UNCHANGED <<tree, tabVars, splits, closes, group, made>>

(* onMove: the ratio is where the mouse is, which may be outside. *)
Drag(r) ==
    /\ drag.on
    /\ tree' = SetRatioAt(tree, drag.path, r)
    /\ UNCHANGED <<tabVars, splits, closes, group, drag, made, clicks>>

EndDrag ==
    /\ drag.on
    /\ drag' = NoDrag
    /\ UNCHANGED <<tree, tabVars, splits, closes, group, made, clicks>>

----------------------------------------------------------------------------
(* Panes that share what is typed *)

Lit == group \cap Shown      \* activeGroup: their button says "Désactiver la synchro d'input"

ToggleBroadcast(x) ==
    /\ tree # NoTree /\ x \in Shown /\ ~Placeholder(x)
    /\ Clicked
    /\ group' = IF x \in group
                THEN IF Cardinality(group) > 2 THEN group \ {x} ELSE {}
                ELSE IF group = {} THEN Shown
                ELSE group \cup {x}
    /\ UNCHANGED <<tree, tabVars, splits, closes, drag, made>>

----------------------------------------------------------------------------

PanesNext ==
    \/ \E x \in Shown : AskSplit(x) \/ ClosePane(x) \/ ToggleBroadcast(x)
    \/ \E s \in splits : SplitPane(s) \/ SplitResolves(s) \/ SplitRejects(s)
    \/ \E c \in closes : PaneClosed(c)
    \/ \E x \in Shown : SessionEnds(x)
    \/ Reconnect \/ AutoReconnect \/ LoopStops
    \/ \E r \in redials : RedialResolves(r) \/ RedialRejects(r)
    \/ \E d \in DividersOf(tree) : StartDrag(d)
    \/ \E r \in {-2, 3} : Drag(r)
    \/ EndDrag

PanesSpec == PanesInit /\ [][PanesNext]_paneVars

----------------------------------------------------------------------------
(* Properties *)

(* The nodes are reached from the root by turns at splits, both ways. *)
Rooted(t) ==
    /\ \A p \in DOMAIN t : \A i \in 0..(Len(p) - 1) : SubSeq(p, 1, i) \in SplitsOf(t)
    /\ \A p \in SplitsOf(t) : \A turn \in Turns : Append(p, turn) \in DOMAIN t

(* A layout is a tree, and more than a leaf; each pane is there once, a divider
   leaves room on both sides, and no divider is there twice.  A pane is shown as
   sharing its input only while another one is, unless the group still holds
   panes that are gone or placeholders that were replaced. *)
PanesTypeOK ==
    /\ tree # NoTree =>
          /\ <<>> \in SplitsOf(tree) /\ Rooted(tree)
          /\ \A p, r \in LeavesOf(tree) : tree[p].id = tree[r].id => p = r
          /\ \A p, r \in SplitsOf(tree) : tree[p].born = tree[r].born => p = r
          /\ \A p \in SplitsOf(tree) : tree[p].ratio \in 1..9
    /\ single \in 1..(2 * SPLITS + 1) /\ status \in {"open", "closed", "connecting"}
    /\ status = "connecting" => gone \/ redials # {}
    /\ group \subseteq 1..(2 * SPLITS + 1)
    /\ gone => tree = NoTree
    /\ Cardinality(Lit) = 1 => group \ Shown # {}

(* What a step may do to the panes: one goes, a placeholder becomes its
   session, or one appears after the pane it is split from. *)
PaneGoes(x) == Shown' = Shown \ {x} /\ Order' = Order \cap (Shown' \X Shown')

PaneBecomes(x, y) ==
    LET now(z) == IF z = x THEN y ELSE z IN
    /\ y \notin Shown
    /\ Shown' = {now(z) : z \in Shown}
    /\ Order' = {<<now(o[1]), now(o[2])>> : o \in Order}

PaneAppears(y, x) ==
    /\ y \notin Shown
    /\ Shown' = Shown \cup {y}
    /\ Order' = Order \cup {<<x, y>>}
                       \cup {<<z, y>> : z \in {z \in Shown : <<z, x>> \in Order}}
                       \cup {<<y, z>> : z \in {z \in Shown : <<x, z>> \in Order}}

PlacesKept ==
    \/ Shown = {}
    \/ Shown' = Shown /\ Order' = Order
    \/ \E x \in Shown : PaneGoes(x) \/ (Placeholder(x) /\ PaneBecomes(x, x + 1))
    \/ \E s \in splits : s.of \in Shown /\ PaneAppears(Pend(s), s.of)

(* Four ways in which the code loses sight of a pane: a layout read before it
   changed is written back; a failed split leaves one pane, which is not the one
   the tab's status names; a pane is split that is closed by then; and once one
   session of the tab has ended, a pane's the user closed included, reconnecting
   drops the layout with the panes whose sessions go on, and its answer takes the
   place of the session of a tab that is open again meanwhile. *)
WrittenBack == \E c \in closes \ closes' : c.read # tree
Reverted == \E s \in splits \ splits' : s.st = "opening" /\ tree # NoTree /\ tree' = NoTree
Redialled == \/ status' = "connecting" /\ status # "connecting"
             \/ redials' # redials /\ status = "open" /\ tree = NoTree
SplitLate == \E s \in splits : s.st = "asked" /\ s \notin splits' /\ s.of \notin Shown

(* The panes keep their places: whatever is split, closed or refused, the
   others stay on the screen, in their order. *)
PanesKeepPlaces ==
    [][~gone' => PlacesKept \/ WrittenBack \/ Reverted \/ SplitLate \/ Redialled]_paneVars

(* Only dragging moves a divider, and only the one it took hold of, unless the
   tree changed under the mouse or an old layout is written back. *)
DividersStay ==
    [][\A d \in DividersOf(tree), e \in DividersOf(tree') :
          d.born = e.born /\ d.ratio # e.ratio =>
             (drag.on /\ (drag.born = d.born \/ drag.moved)) \/ WrittenBack]_paneVars
=============================================================================
