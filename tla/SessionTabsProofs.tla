------------------------- MODULE SessionTabsProofs -------------------------
(***************************************************************************)
(* Theorems about SessionTabs for every set of sessions, tabs and calls    *)
(* and every setting: its types, that it is a use of the registry, so that *)
(* what BackendProofs proves of that holds here, and that every session of *)
(* the registry's map is held by its tab as long as nothing overlapped on  *)
(* the tab.                                                                *)
(***************************************************************************)
EXTENDS SessionTabs, BackendProofs, FiniteSetTheorems

---------------------------------------------------------------------------
(* SessionTabs                                                             *)

(* The front only uses the backend's own steps.                            *)
LEMMA TabsUseRegistry == [TabsNext]_vars => [RegNext]_backend
<1> SUFFICES ASSUME [TabsNext]_vars PROVE [RegNext]_backend
  OBVIOUS
<1>1. ASSUME NEW c \in Conn, CallStep(c) PROVE [RegNext]_backend
  <2>1. CASE BackendOpens(c)
    BY <2>1 DEF BackendOpens, RegNext
  <2>2. CASE SessionClosed(c) \/ SessionGivenUp(c)
    BY <2>2 DEF SessionClosed, SessionGivenUp, RegNext
  <2>3. CASE BackendStep(c)
    BY <2>3 DEF BackendStep, Unseen, RegNext
  <2>4. CASE UNCHANGED backend
    BY <2>4
  <2> QED
    BY <1>1, <2>1, <2>2, <2>3, <2>4
       DEF CallStep, ClickOpen, Click, ClickLapses, Reconnect, SplitPane,
           TabCallResolves, TabCallRejects, SplitResolves, SplitRejects,
           ListenResolves
<1>2. ASSUME NEW t \in Tab, TabStep(t) PROVE UNCHANGED backend
  BY <1>2 DEF TabStep, RestoreClosedTab, AutoStops, ClickReconnect, Click,
              OpenTab, AutoFires, ClickSplit, CloseTab, ClosePane
<1>3. ASSUME NEW k \in Closer, CloserStep(k) PROVE [RegNext]_backend
  <2>1. ASSUME NEW leaf \in Leaf, CloseNext(k, leaf) PROVE [RegNext]_backend
    BY <2>1 DEF CloseNext, RegNext, SessionsIn
  <2>2. ASSUME NEW c \in Conn, CloseAnswered(k, c) PROVE [RegNext]_backend
    BY <2>2 DEF CloseAnswered, RegNext
  <2>3. CASE UNCHANGED backend
    BY <2>3
  <2> QED
    BY <1>3, <2>1, <2>2, <2>3
       DEF CloserStep, CloseTabEnds, ClosePaneClosesTab, ClosePaneEnds
<1>4. CASE UNCHANGED vars
  BY <1>4 DEF vars
<1> QED
  BY <1>1, <1>2, <1>3, <1>4 DEF TabsNext

(* Whatever SessionRegistry is proved to do, it does under the front.      *)
THEOREM TabsImplementRegistry == Spec => RegSpec
<1>1. Init => RegInit
  BY DEF Init
<1> QED
  BY <1>1, TabsUseRegistry, PTL DEF Spec, RegSpec

(* A settled session belongs to one tab for ever. *)
Home(c, t) == call[c].state = "settled" /\ call[c].tab = t

(* A call that was sent, and a click on an existing tab, name a tab. *)
CallsNameTabs ==
  \A c \in Conn :
    (call[c].state \in {"sent", "opened", "settled"} \/ call[c].by # "open")
      => call[c].tab \in Tab

(* A session is in the backend's map only after its open call succeeded. *)
EntriesOpened ==
  \A c \in entries : call[c].state \in {"opened", "settled"}

(* Only tabs that exist hold leaves. *)
HoldersExist ==
  \A t \in Tab : ~Exists(t) => pane[t] = {} /\ layout[t] = {}

(* A session's leaf is only found in its own tab, in a split request made  *)
(* there and in the leaves a closing call has read there.                  *)
TabLeaves ==
  \A t \in Tab, c \in Conn : Sess(c) \in pane[t] \cup layout[t] => Home(c, t)
FromLeaves ==
  \A c, d \in Conn : call[d].from = Sess(c) => Home(c, call[d].tab)
CloserLeaves ==
  \A k \in Closer, c \in Conn :
    Sess(c) \in closer[k].list \cup closer[k].snap => Home(c, closer[k].tab)

(* A split request names the leaf it came from. *)
SplitsHaveFrom ==
  \A c \in Conn : call[c].state = "clicked" /\ call[c].by = "split" =>
    \E d \in Conn : call[c].from = Sess(d)

(* What a closing call has done with is out of the map, and it stays out.  *)
ClosersWork ==
  \A k \in Closer :
    /\ closer[k].mode # "idle" => closer[k].tab \in Tab
    /\ \A c \in Conn : Sess(c) \in closer[k].list \ closer[k].todo => c \notin entries

LeafInv == /\ CallsNameTabs
           /\ EntriesOpened
           /\ HoldersExist
           /\ TabLeaves
           /\ FromLeaves
           /\ CloserLeaves
           /\ SplitsHaveFrom
           /\ ClosersWork

(* A call flies over a tab: clicked, sent, or answered and not yet run on. *)
Flies(c, t) == call[c].tab = t /\ call[c].state \in {"clicked", "sent", "opened"}

(* One store function at a time is in flight on the tab. *)
Alone(t) ==
  /\ \A c, d \in Conn : Flies(c, t) /\ Flies(d, t) => c = d
  /\ \A k, l \in Closer : closer[k].tab = t /\ closer[l].tab = t => k = l
  /\ \A c \in Conn, k \in Closer : ~(Flies(c, t) /\ closer[k].tab = t)

(* The status shows one session, none when closed; a layout has two leaves *)
(* or more, a pending one only for a call that was sent.                   *)
Shape(t) ==
  /\ \A x, y \in pane[t] : x = y
  /\ status[t] = "closed" => pane[t] = {}
  /\ layout[t] # {} => \E x, y \in layout[t] : x # y
  /\ \A c \in Conn : Pend(c) \in layout[t] => Flies(c, t) /\ call[c].state # "clicked"

(* A call that was sent finds its tab when it is answered. *)
Awaited(t) == \A c \in Conn : Flies(c, t) /\ call[c].state # "clicked" => Exists(t)

(* openTab and reconnect start and end on a tab that shows nothing. *)
Blank(t) ==
  \A c \in Conn : Flies(c, t) /\ call[c].by # "split" => pane[t] = {} /\ layout[t] = {}

(* The pane a split starts from is still there, or was alone and is over.  *)
CanSplit(t) ==
  \A c \in Conn : Flies(c, t) /\ call[c].by = "split" /\ call[c].state = "clicked" =>
    \/ call[c].from \in layout[t]
    \/ /\ layout[t] = {}
       /\ pane[t] \subseteq {call[c].from}
       /\ pane[t] = {} => \A d \in entries : call[c].from # Sess(d)

(* A split's placeholder is there; without it the others stay a layout, or *)
(* the status shows the one that is left.                                  *)
CanRevert(t) ==
  \A c \in Conn : Flies(c, t) /\ call[c].by = "split" /\ call[c].state # "clicked" =>
    /\ Pend(c) \in layout[t]
    /\ \/ \E x, y \in layout[t] \ {Pend(c)} : x # y
       \/ \A d \in entries : Sess(d) \in layout[t] => Sess(d) \in pane[t]

(* closeTab still has to close what is left of the tab, closePane has read *)
(* the layout the tab has.                                                 *)
Closes(t) ==
  /\ \A k \in Closer, c \in entries :
       closer[k].tab = t /\ closer[k].mode = "tab" /\ Home(c, t) => Sess(c) \in closer[k].todo
  /\ \A k \in Closer :
       closer[k].tab = t /\ closer[k].mode = "pane" => closer[k].snap = layout[t]

NoneLost(t) == \A c \in entries : Home(c, t) => Sess(c) \in Held(t)

Calm(t) == /\ Alone(t)
           /\ Shape(t)
           /\ Awaited(t)
           /\ Blank(t)
           /\ CanSplit(t)
           /\ CanRevert(t)
           /\ Closes(t)
           /\ NoneLost(t)

AllCalm == \A t \in Tab \ crowded : Calm(t)

(* The inductive invariant.                                                *)
TabsInv == TypeOK /\ LeafInv /\ AllCalm

---------------------------------------------------------------------------
Status == {"absent", "connecting", "open", "closed", "removed"}
AutoRecord == [state : {"off", "waiting", "opening"}, tries : 0..(MaxTries - 1)]

(* The parts of TypeOK, by who writes them.                                *)
ViewTypes == /\ status \in [Tab -> Status]
             /\ pane \in [Tab -> SUBSET Leaf]
             /\ layout \in [Tab -> SUBSET Leaf]
             /\ attach \in SUBSET Conn
             /\ listening \in SUBSET Conn
             /\ leaked \in SUBSET Conn
CallTypes == call \in [Conn -> CallRecord]
AutoTypes == auto \in [Tab -> AutoRecord]
CloserTypes == closer \in [Closer -> CloserRecord]
LockTypes == locked \in BOOLEAN
HistoryTypes == crowded \in SUBSET Tab

(* TypeOK is made of them. *)
LEMMA TypeParts ==
  TypeOK <=> /\ RegTypeOK /\ ViewTypes /\ CallTypes /\ AutoTypes
             /\ CloserTypes /\ LockTypes /\ HistoryTypes
BY DEF TypeOK, ViewTypes, CallTypes, AutoTypes, CloserTypes, LockTypes,
       HistoryTypes, Status, AutoRecord

(* Writing a tab keeps the types of what it writes.                        *)
LEMMA SetTabTypes ==
  ASSUME ViewTypes, NEW t \in Tab, NEW st \in Status, NEW pn \in SUBSET Leaf,
         NEW ly \in SUBSET Leaf, NEW moved, SetTab(t, st, pn, ly, moved)
  PROVE  ViewTypes'
<1>1. /\ Terminals(t, st, pn, ly) \subseteq Conn
      /\ Terminals(t, status[t], pane[t], layout[t]) \subseteq Conn
  BY DEF Terminals, SessionsIn
<1> QED
  BY <1>1 DEF SetTab, ViewTypes, Status

(* So does noting an overlap on a tab.                                     *)
LEMMA CrowdsTypes ==
  ASSUME HistoryTypes, NEW t, NEW condition, condition => t \in Tab, Crowds(t, condition)
  PROVE  HistoryTypes'
BY DEF HistoryTypes, Crowds

(* So does closing a tab.                                                  *)
LEMMA SetClosedTypes ==
  ASSUME ViewTypes, NEW t \in Tab, SetClosed(t)
  PROVE  ViewTypes'
<1>1. layout[t] \in SUBSET Leaf /\ "closed" \in Status
  BY DEF ViewTypes, Status
<1> QED
  BY <1>1, SetTabTypes DEF SetClosed

(* Answering a call keeps the types of the calls.                          *)
LEMMA SettleTypes ==
  ASSUME CallTypes, NEW c \in Conn, Settle(c)
  PROVE  CallTypes'
BY DEF CallTypes, Settle, CallRecord

(* What is not written keeps its type. *)
LEMMA ViewsUnchanged == ViewTypes /\ UNCHANGED <<tabVars, viewVars>> => ViewTypes'
BY DEF ViewTypes, tabVars, viewVars

(* The same for the other parts. *)
LEMMA RestUnchanged ==
  /\ CallTypes /\ UNCHANGED call => CallTypes'
  /\ AutoTypes /\ UNCHANGED auto => AutoTypes'
  /\ CloserTypes /\ UNCHANGED closer => CloserTypes'
  /\ LockTypes /\ UNCHANGED locked => LockTypes'
  /\ HistoryTypes /\ UNCHANGED crowded => HistoryTypes'
BY DEF CallTypes, AutoTypes, CloserTypes, LockTypes, HistoryTypes

(* closeTab starts with leaves of its tab.                                 *)
LEMMA BeginTypes ==
  ASSUME CloserTypes, ViewTypes, NEW k \in Closer, NEW t \in Tab, BeginCloseTab(k, t)
  PROVE  CloserTypes'
<1>1. Held(t) \in SUBSET Leaf
  BY DEF ViewTypes, Held
<1> QED
  BY <1>1 DEF CloserTypes, BeginCloseTab, CloserRecord

(* Every step keeps the front's types.                                     *)
LEMMA TabsTypes == TabsInv /\ [TabsNext]_vars => TypeOK'
<1> SUFFICES ASSUME TabsInv, [TabsNext]_vars PROVE TypeOK'
  OBVIOUS
<1>a. /\ RegTypeOK /\ ViewTypes /\ CallTypes /\ AutoTypes
      /\ CloserTypes /\ LockTypes /\ HistoryTypes
  BY TypeParts DEF TabsInv
<1>b. RegTypeOK'
  BY <1>a, TabsUseRegistry, RegistryTypesStep
<1>c. /\ \A c \in Conn : call[c].state \in {"sent", "opened", "settled"}
                           \/ call[c].by # "open" => call[c].tab \in Tab
      /\ \A c \in Conn : call[c].state = "clicked" /\ call[c].by = "split"
                           => call[c].from \in Leaf
      /\ \A k \in Closer : closer[k].mode # "idle" => closer[k].tab \in Tab
      /\ \A c \in Conn : Sess(c) \in Leaf /\ Pend(c) \in Leaf
  <2>1. \A c \in Conn : Sess(c) \in Leaf /\ Pend(c) \in Leaf
    BY DEF Sess, Pend, Leaf
  <2> QED
    BY <2>1 DEF TabsInv, LeafInv, CallsNameTabs, SplitsHaveFrom, ClosersWork
<1>d. {"absent", "connecting", "open", "closed", "removed"} \subseteq Status
  BY DEF Status
<1>e. \A t \in Tab : /\ status[t] \in Status
                     /\ pane[t] \in SUBSET Leaf
                     /\ layout[t] \in SUBSET Leaf
                     /\ Held(t) \in SUBSET Leaf
  BY <1>a DEF ViewTypes, Held
<1> DEFINE Rest == /\ ViewTypes' /\ CallTypes' /\ AutoTypes'
                   /\ CloserTypes' /\ LockTypes' /\ HistoryTypes'
<1> USE <1>a
<1>1. ASSUME NEW c \in Conn, NEW by \in {"open", "reconnect", "split"},
             NEW t \in Tab \cup {None}, NEW from \in Leaf \cup {None},
             Click(c, by, t, from)
      PROVE  Rest
  <2>1. CallTypes'
    BY <1>1 DEF Click, CallTypes, CallRecord
  <2>2. HistoryTypes'
    BY <1>1, CrowdsTypes DEF Click
  <2> QED
    BY <1>1, <2>1, <2>2, ViewsUnchanged, RestUnchanged DEF Click
<1>2. ASSUME NEW c \in Conn, ClickLapses(c) PROVE Rest
  <2>1. CallTypes'
    BY <1>2 DEF ClickLapses, NoCall, CallTypes, CallRecord
  <2> QED
    BY <1>2, <2>1, ViewsUnchanged, RestUnchanged DEF ClickLapses
<1>3. ASSUME NEW c \in Conn, NEW t \in Tab, OpenTab(c, t) PROVE Rest
  <2>1. CallTypes'
    BY <1>3 DEF OpenTab, CallTypes, CallRecord
  <2> QED
    BY <1>3, <2>1, <1>d, SetTabTypes, CrowdsTypes, RestUnchanged DEF OpenTab
<1>4. ASSUME NEW t \in Tab, RestoreClosedTab(t) PROVE Rest
  BY <1>4, <1>d, SetTabTypes, RestUnchanged DEF RestoreClosedTab
<1>5. ASSUME NEW c \in Conn, NEW t \in Tab, NEW by \in {"reconnect", "auto"},
             StartReconnect(c, t, by)
      PROVE  ViewTypes' /\ CallTypes'
  <2>1. CallTypes'
    BY <1>5 DEF StartReconnect, CallTypes, CallRecord
  <2> QED
    BY <1>5, <2>1, <1>d, SetTabTypes DEF StartReconnect
<1>6. ASSUME NEW c \in Conn, Reconnect(c) PROVE Rest
  BY <1>6, <1>5, <1>c, RestUnchanged DEF Reconnect
<1>7. ASSUME NEW t \in Tab, NEW c \in Conn, AutoFires(t, c) PROVE Rest
  <2>1. AutoTypes'
    BY <1>7 DEF AutoFires, AutoTypes, AutoRecord
  <2> QED
    BY <1>7, <2>1, <1>5, CrowdsTypes, RestUnchanged DEF AutoFires
<1>8. ASSUME NEW t \in Tab, AutoStops(t) PROVE Rest
  <2>1. AutoTypes'
    BY <1>8, MaxTriesAssumption DEF AutoStops, AutoOff, AutoTypes, AutoRecord
  <2> QED
    BY <1>8, <2>1, ViewsUnchanged, RestUnchanged DEF AutoStops
<1>9. ASSUME NEW c \in Conn, SplitPane(c) PROVE Rest
  <2> DEFINE t == call[c].tab
             from == call[c].from
             cur == IF layout[t] # {} THEN layout[t] ELSE {from}
             new == IF from \in cur THEN cur \cup {Pend(c)} ELSE cur
  <2>1. t \in Tab /\ from \in Leaf
    BY <1>9, <1>c DEF SplitPane
  <2>2. new \in SUBSET Leaf
    BY <2>1, <1>c, <1>e
  <2>3. CallTypes'
    BY <1>9, <2>1 DEF SplitPane, CallTypes, CallRecord
  <2>4. SetTab(t, status[t], pane[t], new, SessionsIn({from}))
    BY <1>9 DEF SplitPane
  <2> HIDE DEF t, from, cur, new
  <2> QED
    BY <1>9, <2>1, <2>2, <2>3, <2>4, <1>e, SetTabTypes, RestUnchanged
       DEF SplitPane
<1>10. ASSUME NEW c \in Conn, BackendOpens(c) PROVE Rest
  <2>1. CallTypes'
    BY <1>10 DEF BackendOpens, CallTypes, CallRecord
  <2> QED
    BY <1>10, <2>1, ViewsUnchanged, RestUnchanged DEF BackendOpens
<1>11. ASSUME NEW c \in Conn, TabCallResolves(c) PROVE Rest
  <2>1. call[c].tab \in Tab
    BY <1>11, <1>c DEF TabCallResolves
  <2>2. AutoTypes'
    BY <1>11, <2>1, MaxTriesAssumption DEF TabCallResolves, AutoOff, AutoTypes, AutoRecord
  <2>3. CallTypes' /\ CloserTypes' /\ LockTypes' /\ HistoryTypes'
    BY <1>11, SettleTypes, RestUnchanged DEF TabCallResolves
  <2>4. ViewTypes'
    <3>1. CASE Exists(call[c].tab)
      BY <1>11, <2>1, <3>1, <1>c, <1>d, <1>e, SetTabTypes DEF TabCallResolves
    <3>2. CASE ~Exists(call[c].tab)
      BY <1>11, <3>2, ViewsUnchanged DEF TabCallResolves
    <3> QED
      BY <3>1, <3>2
  <2> QED
    BY <2>2, <2>3, <2>4
<1>12. ASSUME NEW c \in Conn, TabCallRejects(c) PROVE Rest
  <2>1. call[c].tab \in Tab
    BY <1>12, <1>c DEF TabCallRejects
  <2>2. AutoTypes'
    <3> DEFINE next == AfterFailure(auto[call[c].tab].tries + 1)
    <3>1. auto[call[c].tab].tries \in 0..(MaxTries - 1)
      BY <2>1 DEF AutoTypes, AutoRecord
    <3>2. next \in AutoRecord
      BY <3>1, MaxTriesAssumption DEF AfterFailure, AutoOff, AutoRecord
    <3>3. UNCHANGED auto \/ auto' = [auto EXCEPT ![call[c].tab] = next]
      BY <1>12 DEF TabCallRejects
    <3> QED
      BY <3>2, <3>3 DEF AutoTypes
  <2>3. CallTypes' /\ CloserTypes' /\ LockTypes' /\ HistoryTypes'
    <3>1. CallTypes'
      BY <1>12 DEF TabCallRejects, NoCall, CallTypes, CallRecord
    <3> QED
      BY <1>12, <3>1, RestUnchanged DEF TabCallRejects
  <2>4. ViewTypes'
    <3>1. CASE Exists(call[c].tab)
      BY <1>12, <2>1, <3>1, SetClosedTypes DEF TabCallRejects
    <3>2. CASE ~Exists(call[c].tab)
      BY <1>12, <3>2, ViewsUnchanged DEF TabCallRejects
    <3> QED
      BY <3>1, <3>2
  <2> QED
    BY <2>2, <2>3, <2>4
<1>13. ASSUME NEW c \in Conn, SplitResolves(c) PROVE Rest
  <2> DEFINE t == call[c].tab
             new == (layout[t] \ {Pend(c)}) \cup {Sess(c)}
  <2>1. t \in Tab
    BY <1>13, <1>c DEF SplitResolves
  <2>2. new \in SUBSET Leaf
    BY <2>1, <1>c, <1>e
  <2>3. \/ SetTab(t, status[t], pane[t], new, {})
        \/ UNCHANGED <<tabVars, viewVars>>
    BY <1>13 DEF SplitResolves
  <2> HIDE DEF t, new
  <2> QED
    BY <1>13, <2>1, <2>2, <2>3, <1>e, SetTabTypes, SettleTypes,
       ViewsUnchanged, RestUnchanged DEF SplitResolves
<1>14. ASSUME NEW c \in Conn, SplitRejects(c) PROVE Rest
  <2> DEFINE t == call[c].tab
             rest == layout[t] \ {Pend(c)}
             new == Collapsed(rest)
  <2>1. t \in Tab
    BY <1>14, <1>c DEF SplitRejects
  <2>2. new \in SUBSET Leaf
    BY <2>1, <1>e DEF Collapsed
  <2>3. \/ \E moved \in SUBSET SessionsIn(rest) :
             SetTab(t, status[t], pane[t], new, moved)
        \/ UNCHANGED <<tabVars, viewVars>>
    BY <1>14 DEF SplitRejects
  <2> HIDE DEF t, rest, new
  <2> QED
    BY <1>14, <2>1, <2>2, <2>3, <1>e, SetTabTypes, SettleTypes,
       ViewsUnchanged, RestUnchanged DEF SplitRejects
<1>15. ASSUME NEW c \in Conn, ListenResolves(c) PROVE Rest
  <2>1. ViewTypes'
    BY <1>15 DEF ListenResolves, ViewTypes, tabVars
  <2> QED
    BY <1>15, <2>1, RestUnchanged DEF ListenResolves
<1>16. ASSUME NEW c \in Conn, SessionClosed(c) \/ SessionGivenUp(c) PROVE Rest
  <2>1. /\ call[c].tab \in Tab
        /\ Hears(c) \/ Misses
        /\ UNCHANGED <<call, closer, locked>>
    BY <1>16, <1>c DEF SessionClosed, SessionGivenUp
  <2>2. CASE Hears(c)
    <3>1. AutoTypes'
      BY <2>1, <2>2, MaxTriesAssumption DEF Hears, AutoTypes, AutoRecord
    <3>2. ViewTypes' /\ HistoryTypes'
      BY <2>1, <2>2, SetClosedTypes, CrowdsTypes DEF Hears
    <3> QED
      BY <2>1, <3>1, <3>2, RestUnchanged
  <2>3. CASE Misses
    BY <2>1, <2>3, ViewsUnchanged, RestUnchanged DEF Misses
  <2> QED
    BY <2>1, <2>2, <2>3
<1>17. ASSUME NEW k \in Closer, NEW t \in Tab, CloseTab(k, t) PROVE Rest
  BY <1>17, BeginTypes, CrowdsTypes, ViewsUnchanged, RestUnchanged DEF CloseTab
<1>18. ASSUME NEW k \in Closer, NEW t \in Tab, NEW leaf \in Leaf, ClosePane(k, t, leaf)
       PROVE  Rest
  <2>1. CloserTypes'
    BY <1>18, <1>e DEF ClosePane, CloserTypes, CloserRecord
  <2> QED
    BY <1>18, <2>1, CrowdsTypes, ViewsUnchanged, RestUnchanged DEF ClosePane
<1>19. ASSUME NEW k \in Closer, NEW leaf \in Leaf, CloseNext(k, leaf) PROVE Rest
  <2>1. CloserTypes'
    <3>1. \A c \in Conn :
            [closer[k] EXCEPT !.todo = @ \ {leaf}, !.waits = {c}] \in CloserRecord
      BY DEF CloserTypes, CloserRecord
    <3>2. CASE closer' = [closer EXCEPT ![k].todo = @ \ {leaf}]
      BY <3>2 DEF CloserTypes, CloserRecord
    <3>3. ASSUME NEW c \in Conn,
                 closer' = [closer EXCEPT ![k] =
                              [closer[k] EXCEPT !.todo = @ \ {leaf}, !.waits = {c}]]
          PROVE  CloserTypes'
      BY <3>1, <3>3 DEF CloserTypes
    <3> QED
      BY <1>19, <3>2, <3>3 DEF CloseNext, SessionsIn
  <2> QED
    BY <1>19, <2>1, ViewsUnchanged, RestUnchanged DEF CloseNext
<1>20. ASSUME NEW k \in Closer, NEW c \in Conn, CloseAnswered(k, c) PROVE Rest
  <2>1. CloserTypes'
    BY <1>20 DEF CloseAnswered, CloserTypes, CloserRecord
  <2> QED
    BY <1>20, <2>1, ViewsUnchanged, RestUnchanged DEF CloseAnswered
<1>21. ASSUME NEW k \in Closer, closer' = [closer EXCEPT ![k] = IdleCloser]
       PROVE  CloserTypes'
  BY <1>21 DEF CloserTypes, CloserRecord, IdleCloser
<1>22. ASSUME NEW k \in Closer, CloseTabEnds(k) PROVE Rest
  <2>1. closer[k].tab \in Tab
    BY <1>22, <1>c DEF CloseTabEnds, AllClosed
  <2> QED
    BY <1>22, <2>1, <1>21, <1>d, SetTabTypes, ViewsUnchanged,
       RestUnchanged DEF CloseTabEnds
<1>23. ASSUME NEW k \in Closer, ClosePaneClosesTab(k) PROVE Rest
  BY <1>23, <1>c, BeginTypes, ViewsUnchanged, RestUnchanged
     DEF ClosePaneClosesTab, AllClosed
<1>24. ASSUME NEW k \in Closer, ClosePaneEnds(k) PROVE Rest
  <2> DEFINE t == closer[k].tab
             next == closer[k].snap \ closer[k].list
  <2>1. t \in Tab
    BY <1>24, <1>c DEF ClosePaneEnds, AllClosed
  <2>2. next \in SUBSET Leaf
    BY DEF CloserTypes, CloserRecord
  <2>3. \/ \E moved \in SUBSET SessionsIn(next) :
             \/ SetTab(t, "open", next, {}, moved)
             \/ SetTab(t, status[t], pane[t], next, moved)
        \/ UNCHANGED <<tabVars, viewVars>>
    BY <1>24 DEF ClosePaneEnds
  <2> HIDE DEF t, next
  <2> QED
    BY <1>24, <2>1, <2>2, <2>3, <1>21, <1>d, <1>e, SetTabTypes,
       ViewsUnchanged, RestUnchanged DEF ClosePaneEnds
<1>25. ASSUME NEW c \in Conn, BackendStep(c) PROVE Rest
  BY <1>25, ViewsUnchanged, RestUnchanged DEF BackendStep, Unseen
<1>26. ASSUME UNCHANGED vars PROVE Rest
  <2>1. ViewTypes'
    BY <1>26 DEF vars, tabVars, viewVars, ViewTypes
  <2> QED
    BY <1>26, <2>1, RestUnchanged DEF vars
<1>27. ASSUME NEW c \in Conn, CallStep(c) PROVE Rest
  BY <1>27, <1>1, <1>2, <1>6, <1>9, <1>10, <1>11, <1>12, <1>13, <1>14, <1>15,
     <1>16, <1>25 DEF CallStep, ClickOpen
<1>28. ASSUME NEW t \in Tab, TabStep(t) PROVE Rest
  <2>1. ASSUME NEW c \in Conn, ClickReconnect(c, t) PROVE Rest
    BY <2>1, <1>1 DEF ClickReconnect
  <2>2. ASSUME NEW c \in Conn, NEW c2 \in Conn, ClickSplit(c, t, c2) PROVE Rest
    BY <2>2, <1>1, <1>c DEF ClickSplit
  <2> HIDE DEF Rest
  <2> QED
    BY <1>28, <2>1, <2>2, <1>3, <1>4, <1>7, <1>8, <1>17, <1>18, CloserAssumption
       DEF TabStep
<1>29. ASSUME NEW k \in Closer, CloserStep(k) PROVE Rest
  <2> HIDE DEF Rest
  <2> QED
    BY <1>29, <1>19, <1>20, <1>22, <1>23, <1>24 DEF CloserStep
<1>30. Rest
  <2> HIDE DEF Rest
  <2>1. CASE TabsNext
    BY <2>1, <1>27, <1>28, <1>29 DEF TabsNext
  <2> QED
    BY <2>1, <1>26
<1> QED
  BY <1>b, <1>30
     DEF TypeOK, ViewTypes, CallTypes, AutoTypes, CloserTypes, LockTypes,
         HistoryTypes, Status, AutoRecord

---------------------------------------------------------------------------
(* The initial states satisfy the invariant.                               *)
LEMMA TabsInit == Init => TabsInv
<1> SUFFICES ASSUME Init PROVE TabsInv
  OBVIOUS
<1>1. TypeOK
  BY RegistryTypesInit, MaxTriesAssumption
     DEF Init, TypeOK, NoCall, AutoOff, IdleCloser, CallRecord, CloserRecord
<1>2. /\ CallsNameTabs /\ EntriesOpened /\ HoldersExist
      /\ SplitsHaveFrom /\ ClosersWork
  BY DEF Init, RegInit, NoCall, IdleCloser, CallsNameTabs, EntriesOpened, HoldersExist,
         SplitsHaveFrom, ClosersWork
<1>3. TabLeaves /\ FromLeaves /\ CloserLeaves
  <2>1. \A c \in Conn : None # Sess(c)
    BY NoneAssumption DEF Sess, Leaf
  <2> QED
    BY <2>1 DEF Init, NoCall, IdleCloser, TabLeaves, FromLeaves, CloserLeaves
<1>4. AllCalm
  <2> SUFFICES ASSUME NEW t \in Tab PROVE Calm(t)
    BY DEF AllCalm
  <2>1. /\ pane[t] = {} /\ layout[t] = {} /\ entries = {}
        /\ \A c \in Conn : ~Flies(c, t)
        /\ \A k \in Closer : closer[k].tab # t
    BY NoneAssumption DEF Init, RegInit, NoCall, IdleCloser, Flies
  <2>2. Alone(t) /\ Shape(t) /\ Awaited(t) /\ Blank(t)
    BY <2>1 DEF Alone, Shape, Awaited, Blank
  <2>3. CanSplit(t) /\ CanRevert(t) /\ Closes(t) /\ NoneLost(t)
    BY <2>1 DEF CanSplit, CanRevert, Closes, NoneLost
  <2> QED
    BY <2>2, <2>3 DEF Calm
<1> QED
  BY <1>1, <1>2, <1>3, <1>4 DEF TabsInv, LeafInv


(* What SetTab writes to the three fields of a tab.                        *)
LEMMA SetTabWrites ==
  ASSUME NEW t, NEW st, NEW pn, NEW ly, NEW moved, SetTab(t, st, pn, ly, moved)
  PROVE  /\ status' = [status EXCEPT ![t] = st]
         /\ pane' = [pane EXCEPT ![t] = pn]
         /\ layout' = [layout EXCEPT ![t] = ly]
BY DEF SetTab

(* Leaves are told apart by what they stand for.                           *)
LEMMA Leaves ==
  /\ \A c, d \in Conn : Sess(c) = Sess(d) => c = d
  /\ \A c, d \in Conn : Sess(c) # Pend(d)
  /\ \A c \in Conn : Sess(c) \in Leaf /\ Sess(c) # None
  /\ \A c \in Conn : Pend(c) \in Leaf
BY NoneAssumption DEF Sess, Pend, Leaf

(* The sessions of some leaves are those whose leaf is among them.         *)
LEMMA InSessions ==
  \A leaves : \A c \in Conn : c \in SessionsIn(leaves) <=> Sess(c) \in leaves
BY DEF SessionsIn

(* The next close_session call of a closing call.                          *)
LEMMA CloseNextKeeps ==
  ASSUME TabsInv, NEW k \in Closer, NEW leaf \in Leaf, CloseNext(k, leaf)
  PROVE  TabLeaves' /\ FromLeaves' /\ CloserLeaves' /\ ClosersWork'
<1>b. /\ ViewTypes /\ CallTypes /\ CloserTypes /\ HistoryTypes /\ RegTypeOK
      /\ CallsNameTabs /\ EntriesOpened /\ HoldersExist /\ TabLeaves /\ FromLeaves
      /\ CloserLeaves /\ SplitsHaveFrom /\ ClosersWork
  BY TypeParts DEF TabsInv, LeafInv
<1>1. UNCHANGED <<status, pane, layout, call, crowded>>
  BY DEF CloseNext, tabVars
<1>2. TabLeaves' /\ FromLeaves'
  BY <1>b, <1>1 DEF TabLeaves, FromLeaves, Home
<1>3. /\ \A q \in Closer : /\ closer'[q].list = closer[q].list
                           /\ closer'[q].snap = closer[q].snap
                           /\ closer'[q].tab = closer[q].tab
                           /\ closer'[q].mode = closer[q].mode
                           /\ closer'[q].todo = IF q = k THEN closer[q].todo \ {leaf} ELSE closer[q].todo
      /\ entries' \subseteq entries
      /\ \A c \in Conn : leaf = Sess(c) => c \notin entries'
  <2>1. CASE SessionsIn({leaf}) \cap entries # {}
    <3>1. PICK c \in SessionsIn({leaf}) :
            /\ TakeEntry(c)
            /\ closer' = [closer EXCEPT ![k] = [closer[k] EXCEPT !.todo = @ \ {leaf}, !.waits = {c}]]
      BY <2>1 DEF CloseNext
    <3> DEFINE r == [closer[k] EXCEPT !.todo = @ \ {leaf}, !.waits = {c}]
    <3>2. /\ r.list = closer[k].list /\ r.snap = closer[k].snap
          /\ r.tab = closer[k].tab /\ r.mode = closer[k].mode
          /\ r.todo = closer[k].todo \ {leaf}
      BY <1>b DEF CloserTypes, CloserRecord
    <3>3. \A q \in Closer : closer'[q] = IF q = k THEN r ELSE closer[q]
      BY <1>b, <3>1 DEF CloserTypes
    <3>4. entries' = entries \ {c} /\ leaf = Sess(c)
      BY <3>1 DEF TakeEntry, SessionsIn
    <3> HIDE DEF r
    <3> QED
      BY <1>b, <3>1, <3>2, <3>3, <3>4, Leaves DEF SessionsIn
  <2>2. CASE SessionsIn({leaf}) \cap entries = {}
    <3>1. UNCHANGED backend /\ closer' = [closer EXCEPT ![k].todo = @ \ {leaf}]
      BY <2>2 DEF CloseNext
    <3>2. \A c \in Conn : leaf = Sess(c) => c \notin entries
      BY <2>2, InSessions
    <3>3. entries' = entries
      BY <3>1 DEF backend
    <3> QED
      BY <1>b, <3>1, <3>2, <3>3 DEF CloserTypes, CloserRecord
  <2> QED
    BY <2>1, <2>2
<1>4. CloserLeaves' /\ ClosersWork'
  BY <1>b, <1>1, <1>3 DEF CloserLeaves, ClosersWork, Home
<1> QED
  BY <1>2, <1>4

(* Every step keeps the leaves where they belong.                          *)
LEMMA LeafStep == TabsInv /\ [TabsNext]_vars => LeafInv'
<1> SUFFICES ASSUME TabsInv, [TabsNext]_vars PROVE LeafInv'
  OBVIOUS
<1>b. /\ ViewTypes /\ CallTypes /\ CloserTypes /\ HistoryTypes /\ RegTypeOK
      /\ CallsNameTabs /\ EntriesOpened /\ HoldersExist /\ TabLeaves /\ FromLeaves
      /\ CloserLeaves /\ SplitsHaveFrom /\ ClosersWork
  BY TypeParts DEF TabsInv, LeafInv
<1>1. ASSUME NEW c \in Conn, NEW by \in {"open", "reconnect", "split"},
             NEW t \in Tab \cup {None}, NEW from \in Leaf \cup {None},
             Click(c, by, t, from),
             by # "open" => t \in Tab, by = "split" => \E d \in Conn : from = Sess(d),
             \A d \in Conn : from = Sess(d) => Home(d, t)
      PROVE  LeafInv'
  <2>1. CallsNameTabs' /\ EntriesOpened' /\ HoldersExist' /\ SplitsHaveFrom'
    BY <1>b, <1>1
       DEF Click, backend, tabVars, CallsNameTabs, EntriesOpened,
           HoldersExist, Exists, SplitsHaveFrom
  <2>2. ClosersWork'
    BY <1>b, <1>1 DEF Click, backend, ClosersWork
  <2>3. TabLeaves' /\ FromLeaves' /\ CloserLeaves'
    BY <1>b, <1>1
       DEF Click, tabVars, TabLeaves, CloserLeaves, FromLeaves, Home
  <2> QED
    BY <2>1, <2>2, <2>3 DEF LeafInv
<1>2. ASSUME NEW c \in Conn, NEW t \in Tab, OpenTab(c, t) PROVE LeafInv'
  <2>1. CallsNameTabs' /\ EntriesOpened' /\ HoldersExist' /\ SplitsHaveFrom'
    BY <1>b, <1>2, SetTabWrites
       DEF OpenTab, backend, CallsNameTabs, EntriesOpened, HoldersExist,
           ViewTypes, Exists, SplitsHaveFrom
  <2>2. ClosersWork'
    BY <1>b, <1>2 DEF OpenTab, backend, ClosersWork
  <2>3. TabLeaves' /\ FromLeaves' /\ CloserLeaves'
    <3>1. TabLeaves'
      BY <1>b, <1>2, SetTabWrites DEF OpenTab, TabLeaves, Home, ViewTypes
    <3>2. FromLeaves'
      BY <1>b, <1>2, Leaves DEF OpenTab, FromLeaves, Home
    <3>3. CloserLeaves'
      BY <1>b, <1>2 DEF OpenTab, CloserLeaves, Home
    <3> QED
      BY <3>1, <3>2, <3>3
  <2> QED
    BY <2>1, <2>2, <2>3 DEF LeafInv
<1>3. ASSUME NEW c \in Conn, Reconnect(c) PROVE LeafInv'
  <2>1. CallsNameTabs' /\ EntriesOpened' /\ HoldersExist' /\ SplitsHaveFrom'
    BY <1>b, <1>3, SetTabWrites, Leaves, InSessions
       DEF Reconnect, StartReconnect, backend, tabVars, CallsNameTabs,
           CallTypes, CallRecord, EntriesOpened, RegTypeOK, HoldersExist,
           ViewTypes, Exists, SplitsHaveFrom
  <2>2. ClosersWork'
    BY <1>b, <1>3 DEF Reconnect, backend, ClosersWork
  <2>3. TabLeaves' /\ FromLeaves' /\ CloserLeaves'
    BY <1>b, <1>3, SetTabWrites, Leaves, InSessions
       DEF Reconnect, StartReconnect, backend, tabVars, TabLeaves,
           CloserLeaves, FromLeaves, Home, CallsNameTabs, ClosersWork,
           SplitsHaveFrom, ViewTypes, CallTypes, CallRecord, CloserTypes,
           CloserRecord, Held
  <2> QED
    BY <2>1, <2>2, <2>3 DEF LeafInv
<1>4. ASSUME NEW t \in Tab, NEW c \in Conn, AutoFires(t, c) PROVE LeafInv'
  <2>1. CallsNameTabs' /\ EntriesOpened' /\ HoldersExist' /\ SplitsHaveFrom'
    BY <1>b, <1>4, SetTabWrites
       DEF AutoFires, StartReconnect, backend, CallsNameTabs, EntriesOpened,
           HoldersExist, ViewTypes, Exists, SplitsHaveFrom
  <2>2. ClosersWork'
    BY <1>b, <1>4 DEF AutoFires, backend, ClosersWork
  <2>3. TabLeaves' /\ FromLeaves' /\ CloserLeaves'
    BY <1>b, <1>4, SetTabWrites, Leaves, InSessions
       DEF AutoFires, StartReconnect, backend, tabVars, TabLeaves,
           CloserLeaves, FromLeaves, Home, CallsNameTabs, ClosersWork,
           SplitsHaveFrom, ViewTypes, CallTypes, CallRecord, CloserTypes,
           CloserRecord, Held
  <2> QED
    BY <2>1, <2>2, <2>3 DEF LeafInv
<1>5. ASSUME NEW c \in Conn, SplitPane(c) PROVE LeafInv'
  <2>1. CallsNameTabs' /\ EntriesOpened' /\ HoldersExist' /\ SplitsHaveFrom'
    <3>1. CallsNameTabs'
      BY <1>b, <1>5 DEF SplitPane, CallsNameTabs, CallTypes, CallRecord
    <3>2. EntriesOpened'
      BY <1>b, <1>5 DEF SplitPane, backend, EntriesOpened, RegTypeOK
    <3>3. HoldersExist'
      BY <1>b, <1>5, SetTabWrites DEF SplitPane, HoldersExist, ViewTypes, Exists
    <3>4. SplitsHaveFrom'
      BY <1>b, <1>5 DEF SplitPane, CallTypes, CallRecord, SplitsHaveFrom
    <3> QED
      BY <3>1, <3>2, <3>3, <3>4
  <2>2. ClosersWork'
    BY <1>b, <1>5 DEF SplitPane, backend, ClosersWork
  <2>3. TabLeaves' /\ FromLeaves' /\ CloserLeaves'
    BY <1>b, <1>5, SetTabWrites, Leaves, InSessions
       DEF SplitPane, backend, tabVars, TabLeaves, CloserLeaves, FromLeaves,
           Home, CallsNameTabs, ClosersWork, SplitsHaveFrom, ViewTypes,
           CallTypes, CallRecord, CloserTypes, CloserRecord, Held
  <2> QED
    BY <2>1, <2>2, <2>3 DEF LeafInv
<1>6. ASSUME NEW c \in Conn, TabCallResolves(c) PROVE LeafInv'
  <2>1. CallsNameTabs' /\ EntriesOpened' /\ HoldersExist' /\ SplitsHaveFrom'
    BY <1>b, <1>6, SetTabWrites, Leaves, InSessions
       DEF TabCallResolves, Settle, backend, tabVars, CallsNameTabs,
           EntriesOpened, HoldersExist, ViewTypes, Exists, SplitsHaveFrom
  <2>2. ClosersWork'
    BY <1>b, <1>6 DEF TabCallResolves, backend, ClosersWork
  <2>3. TabLeaves' /\ FromLeaves' /\ CloserLeaves'
    BY <1>b, <1>6, SetTabWrites, Leaves
       DEF TabCallResolves, Settle, tabVars, TabLeaves, CloserLeaves,
           FromLeaves, Home, ViewTypes, CallTypes
  <2> QED
    BY <2>1, <2>2, <2>3 DEF LeafInv
<1>7. ASSUME NEW c \in Conn, TabCallRejects(c) PROVE LeafInv'
  <2>1. CallsNameTabs' /\ EntriesOpened' /\ HoldersExist' /\ SplitsHaveFrom'
    BY <1>b, <1>7, SetTabWrites, Leaves, InSessions
       DEF TabCallRejects, SetClosed, NoCall, backend, tabVars, CallsNameTabs,
           CallTypes, CallRecord, EntriesOpened, RegTypeOK, HoldersExist,
           ViewTypes, Exists, SplitsHaveFrom
  <2>2. ClosersWork'
    BY <1>b, <1>7 DEF TabCallRejects, SetClosed, backend, ClosersWork
  <2>3. TabLeaves' /\ FromLeaves' /\ CloserLeaves'
    BY <1>b, <1>7, SetTabWrites, Leaves
       DEF TabCallRejects, SetClosed, NoCall, tabVars, TabLeaves, CloserLeaves,
           FromLeaves, Home, ViewTypes
  <2> QED
    BY <2>1, <2>2, <2>3 DEF LeafInv
<1>8. ASSUME NEW c \in Conn, SplitResolves(c) PROVE LeafInv'
  <2>1. CallsNameTabs' /\ EntriesOpened' /\ HoldersExist' /\ SplitsHaveFrom'
    BY <1>b, <1>8, SetTabWrites
       DEF SplitResolves, Settle, backend, tabVars, CallsNameTabs,
           EntriesOpened, HoldersExist, ViewTypes, Exists, SplitsHaveFrom
  <2>2. ClosersWork'
    BY <1>b, <1>8 DEF SplitResolves, backend, ClosersWork
  <2>3. TabLeaves' /\ FromLeaves' /\ CloserLeaves'
    BY <1>b, <1>8, SetTabWrites, Leaves
       DEF SplitResolves, Settle, tabVars, TabLeaves, CloserLeaves,
           FromLeaves, Home, ViewTypes, CallTypes
  <2> QED
    BY <2>1, <2>2, <2>3 DEF LeafInv
<1>9. ASSUME NEW c \in Conn, SplitRejects(c) PROVE LeafInv'
  <2>1. CallsNameTabs' /\ EntriesOpened' /\ HoldersExist' /\ SplitsHaveFrom'
    BY <1>b, <1>9, SetTabWrites, Leaves, InSessions
       DEF SplitRejects, Collapsed, Settle, backend, tabVars, CallsNameTabs, CallTypes,
           CallRecord, EntriesOpened, RegTypeOK, HoldersExist, ViewTypes,
           Exists, SplitsHaveFrom
  <2>2. ClosersWork'
    BY <1>b, <1>9 DEF SplitRejects, backend, ClosersWork
  <2>3. TabLeaves' /\ FromLeaves' /\ CloserLeaves'
    BY <1>b, <1>9, SetTabWrites, Leaves
       DEF SplitRejects, Collapsed, Settle, tabVars, TabLeaves, CloserLeaves,
           FromLeaves, Home, CallsNameTabs, ViewTypes
  <2> QED
    BY <2>1, <2>2, <2>3 DEF LeafInv
<1>10. ASSUME NEW c \in Conn, SessionClosed(c) \/ SessionGivenUp(c) PROVE LeafInv'
  <2>1. /\ call[c].tab \in Tab
        /\ UNCHANGED <<call, closer>> /\ entries' \subseteq entries
    BY <1>b, <1>10
       DEF SessionClosed, SessionGivenUp, Announce, EmitFails, CallsNameTabs
  <2>2. \/ /\ status' = [status EXCEPT ![call[c].tab] = "closed"]
           /\ pane' = [pane EXCEPT ![call[c].tab] = {}]
           /\ layout' = layout
           /\ Exists(call[c].tab)
        \/ UNCHANGED tabVars
    BY <1>b, <1>10, SetTabWrites
       DEF SessionClosed, SessionGivenUp, Hears, Misses, SetClosed, ViewTypes
  <2>3. CallsNameTabs' /\ EntriesOpened' /\ SplitsHaveFrom' /\ ClosersWork'
    BY <1>b, <2>1
       DEF CallsNameTabs, EntriesOpened, SplitsHaveFrom, ClosersWork
  <2>4. HoldersExist'
    BY <1>b, <2>1, <2>2 DEF HoldersExist, Exists, ViewTypes, tabVars
  <2>5. TabLeaves' /\ FromLeaves' /\ CloserLeaves'
    BY <1>b, <2>1, <2>2
       DEF TabLeaves, FromLeaves, CloserLeaves, Home, ViewTypes, tabVars
  <2> QED
    BY <2>3, <2>4, <2>5 DEF LeafInv
<1>11. ASSUME NEW k \in Closer, CloseTabEnds(k) PROVE LeafInv'
  <2>1. CallsNameTabs' /\ EntriesOpened' /\ HoldersExist' /\ SplitsHaveFrom'
    BY <1>b, <1>11, SetTabWrites
       DEF CloseTabEnds, backend, tabVars, CallsNameTabs, EntriesOpened,
           HoldersExist, ViewTypes, Exists, SplitsHaveFrom
  <2>2. ClosersWork'
    BY <1>b, <1>11 DEF CloseTabEnds, IdleCloser, backend, ClosersWork
  <2>3. TabLeaves' /\ FromLeaves' /\ CloserLeaves'
    <3>1. TabLeaves'
      BY <1>b, <1>11, SetTabWrites, Leaves, InSessions
       DEF CloseTabEnds, AllClosed, IdleCloser, TabLeaves, Home, CallTypes,
           CallRecord, ViewTypes, CallsNameTabs, backend, tabVars
    <3>2. FromLeaves'
      BY <1>b, <1>11 DEF CloseTabEnds, FromLeaves, Home
    <3>3. CloserLeaves'
      BY <1>b, <1>11 DEF CloseTabEnds, IdleCloser, CloserLeaves, Home
    <3> QED
      BY <3>1, <3>2, <3>3
  <2> QED
    BY <2>1, <2>2, <2>3 DEF LeafInv
<1>12. ASSUME NEW k \in Closer, ClosePaneEnds(k) PROVE LeafInv'
  <2>1. CallsNameTabs' /\ EntriesOpened' /\ HoldersExist' /\ SplitsHaveFrom'
    BY <1>b, <1>12, SetTabWrites
       DEF ClosePaneEnds, backend, tabVars, CallsNameTabs, EntriesOpened,
           HoldersExist, ViewTypes, Exists, SplitsHaveFrom
  <2>2. ClosersWork'
    BY <1>b, <1>12 DEF ClosePaneEnds, IdleCloser, backend, ClosersWork
  <2>3. TabLeaves' /\ FromLeaves' /\ CloserLeaves'
    <3>1. \A u \in Tab : pane'[u] \cup layout'[u] \subseteq pane[u] \cup layout[u] \cup
             (IF u = closer[k].tab THEN closer[k].snap ELSE {})
      <4>1. ASSUME NEW moved, NEW next, next \subseteq closer[k].snap, NEW t, t = closer[k].tab,
                   SetTab(t, "open", next, {}, moved) \/ SetTab(t, status[t], pane[t], next, moved)
            PROVE  \A u \in Tab : pane'[u] \cup layout'[u] \subseteq pane[u] \cup layout[u] \cup
                     (IF u = closer[k].tab THEN closer[k].snap ELSE {})
        <5>1. \/ layout' = [layout EXCEPT ![t] = {}] /\ pane' = [pane EXCEPT ![t] = next]
              \/ layout' = [layout EXCEPT ![t] = next] /\ pane' = [pane EXCEPT ![t] = pane[t]]
          BY <4>1, SetTabWrites
        <5> QED
          BY <1>b, <4>1, <5>1 DEF ViewTypes
      <4>2. ASSUME UNCHANGED <<tabVars, viewVars>>
            PROVE  \A u \in Tab : pane'[u] \cup layout'[u] \subseteq pane[u] \cup layout[u] \cup
                     (IF u = closer[k].tab THEN closer[k].snap ELSE {})
        BY <4>2 DEF tabVars
      <4>3. closer[k].snap \ closer[k].list \subseteq closer[k].snap
        OBVIOUS
      <4> QED
        BY <1>12, <4>1, <4>2, <4>3 DEF ClosePaneEnds
    <3>2. call' = call /\ TabLeaves'
      BY <1>b, <1>12, <3>1 DEF ClosePaneEnds, TabLeaves, CloserLeaves, Home
    <3>3. FromLeaves'
      BY <1>b, <3>2 DEF FromLeaves, Home
    <3>4. CloserLeaves'
      BY <1>b, <1>12 DEF ClosePaneEnds, IdleCloser, CloserLeaves, Home
    <3> QED
      BY <3>2, <3>3, <3>4
  <2> QED
    BY <2>1, <2>2, <2>3 DEF LeafInv
<1>13. ASSUME NEW c \in Conn, ClickLapses(c) PROVE LeafInv'
  BY <1>b, <1>13, Leaves
     DEF ClickLapses, NoCall, LeafInv, CallsNameTabs, EntriesOpened,
         HoldersExist, TabLeaves, FromLeaves, CloserLeaves, SplitsHaveFrom,
         ClosersWork, Home, Held, Exists, ViewTypes,
         RegTypeOK, backend, tabVars
<1>14. ASSUME NEW t \in Tab, RestoreClosedTab(t) PROVE LeafInv'
  <2>1. /\ UNCHANGED <<entries, call, closer, crowded>> /\ ~Exists(t)
        /\ status' = [status EXCEPT ![t] = "closed"]
        /\ pane' = [pane EXCEPT ![t] = {}] /\ layout' = [layout EXCEPT ![t] = {}]
    BY <1>14, SetTabWrites DEF RestoreClosedTab, Exists, backend
  <2>2. pane' = pane /\ layout' = layout
    BY <1>b, <2>1 DEF HoldersExist, ViewTypes
  <2>3. CallsNameTabs' /\ EntriesOpened' /\ SplitsHaveFrom' /\ ClosersWork'
    BY <1>b, <2>1
       DEF CallsNameTabs, EntriesOpened, SplitsHaveFrom, ClosersWork
  <2>4. HoldersExist'
    BY <1>b, <2>1, <2>2 DEF HoldersExist, Exists
  <2>5. TabLeaves' /\ FromLeaves' /\ CloserLeaves'
    BY <1>b, <2>1, <2>2 DEF TabLeaves, FromLeaves, CloserLeaves, Home
  <2> QED
    BY <2>3, <2>4, <2>5 DEF LeafInv
<1>15. ASSUME NEW t \in Tab, AutoStops(t) PROVE LeafInv'
  BY <1>b, <1>15
     DEF AutoStops, LeafInv, CallsNameTabs, EntriesOpened, HoldersExist,
         TabLeaves, FromLeaves, CloserLeaves, SplitsHaveFrom, ClosersWork, Home, Held, Exists, ViewTypes, backend, tabVars
<1>16. ASSUME NEW c \in Conn, BackendOpens(c) PROVE LeafInv'
  BY <1>b, <1>16
     DEF BackendOpens, Register, LeafInv, CallsNameTabs, EntriesOpened,
         HoldersExist, TabLeaves, FromLeaves, CloserLeaves, SplitsHaveFrom,
         ClosersWork, Home, Held, Exists, ViewTypes,
         CallTypes, RegTypeOK, tabVars
<1>17. ASSUME NEW c \in Conn, ListenResolves(c) PROVE LeafInv'
  BY <1>b, <1>17
     DEF ListenResolves, LeafInv, CallsNameTabs, EntriesOpened,
         HoldersExist, TabLeaves, FromLeaves, CloserLeaves, SplitsHaveFrom,
         ClosersWork, Home, Held, Exists, ViewTypes,
         backend, tabVars
<1>18. ASSUME NEW k \in Closer, NEW t \in Tab, CloseTab(k, t) PROVE LeafInv'
  BY <1>b, <1>18
     DEF CloseTab, BeginCloseTab, LeafInv, CallsNameTabs, EntriesOpened,
         HoldersExist, TabLeaves, FromLeaves, CloserLeaves, SplitsHaveFrom,
         ClosersWork, Home, Held, Exists, ViewTypes,
         RegTypeOK, backend, tabVars
<1>19. ASSUME NEW k \in Closer, NEW t \in Tab, NEW leaf \in Leaf, ClosePane(k, t, leaf)
      PROVE  LeafInv'
  BY <1>b, <1>19
     DEF ClosePane, LeafInv, CallsNameTabs, EntriesOpened, HoldersExist,
         TabLeaves, FromLeaves, CloserLeaves, SplitsHaveFrom, ClosersWork, Home, Held, Exists, ViewTypes, RegTypeOK,
         backend, tabVars
<1>20. ASSUME NEW k \in Closer, NEW c \in Conn, CloseAnswered(k, c) PROVE LeafInv'
  BY <1>b, <1>20
     DEF CloseAnswered, CloseReturns, KillShell, LeafInv, CallsNameTabs, EntriesOpened,
         HoldersExist, TabLeaves, FromLeaves, CloserLeaves, SplitsHaveFrom,
         ClosersWork, Home, Held, Exists, ViewTypes,
         RegTypeOK, tabVars
<1>21. ASSUME NEW k \in Closer, ClosePaneClosesTab(k) PROVE LeafInv'
  BY <1>b, <1>21
     DEF ClosePaneClosesTab, BeginCloseTab, AllClosed, LeafInv,
         CallsNameTabs, EntriesOpened, HoldersExist, TabLeaves, FromLeaves,
         CloserLeaves, SplitsHaveFrom, ClosersWork, Home,
         Held, Exists, ViewTypes, RegTypeOK, backend, tabVars
<1>22. ASSUME NEW c \in Conn, BackendStep(c) PROVE LeafInv'
  BY <1>b, <1>22
     DEF BackendStep, Unseen, StreamEnds, StopDriver, SftpBegins, SftpEnds,
         LeafInv, CallsNameTabs, EntriesOpened, HoldersExist, TabLeaves,
         FromLeaves, CloserLeaves, SplitsHaveFrom, ClosersWork, Home, Held, Exists, ViewTypes, RegTypeOK, tabVars
<1>23. ASSUME UNCHANGED vars PROVE LeafInv'
  BY <1>b, <1>23
     DEF vars, LeafInv, CallsNameTabs, EntriesOpened, HoldersExist,
         TabLeaves, FromLeaves, CloserLeaves, SplitsHaveFrom, ClosersWork, Home, Held, Exists, ViewTypes, backend, tabVars
<1>24. ASSUME NEW k \in Closer, NEW leaf \in Leaf, CloseNext(k, leaf) PROVE LeafInv'
  <2>1. TabLeaves' /\ FromLeaves' /\ CloserLeaves' /\ ClosersWork'
    BY <1>24, CloseNextKeeps
  <2>2. UNCHANGED <<call, tabVars>> /\ entries' \subseteq entries
    BY <1>24 DEF CloseNext, TakeEntry, backend
  <2>3. CallsNameTabs' /\ EntriesOpened' /\ HoldersExist' /\ SplitsHaveFrom'
    BY <1>b, <2>2
       DEF CallsNameTabs, EntriesOpened, HoldersExist, SplitsHaveFrom,
           Exists, tabVars
  <2> QED
    BY <2>1, <2>3 DEF LeafInv
<1>25. ASSUME NEW c \in Conn, CallStep(c) PROVE LeafInv'
  <2>1. ASSUME ClickOpen(c) PROVE LeafInv'
    <3>1. \A d \in Conn : None # Sess(d)
      BY Leaves
    <3> QED
      BY <1>1, <2>1, <3>1 DEF ClickOpen
  <2> QED
    BY <1>25, <1>3, <1>5, <1>6, <1>7, <1>8, <1>9, <1>10, <1>13, <1>16, <1>17,
       <1>22, <2>1 DEF CallStep
<1>26. ASSUME NEW t \in Tab, TabStep(t) PROVE LeafInv'
  <2>1. ASSUME NEW c \in Conn, ClickReconnect(c, t) PROVE LeafInv'
    <3>1. \A d \in Conn : None # Sess(d)
      BY Leaves
    <3> QED
      BY <1>1, <2>1, <3>1 DEF ClickReconnect
  <2>2. ASSUME NEW c \in Conn, NEW c2 \in Conn, ClickSplit(c, t, c2) PROVE LeafInv'
    <3>1. Sess(c2) \in pane[t] \cup layout[t]
      BY <2>2 DEF ClickSplit, Terminals, SessionsIn
    <3>2. \A d \in Conn : Sess(c2) = Sess(d) => Home(d, t)
      BY <1>b, <3>1, Leaves DEF TabLeaves
    <3>3. Sess(c2) \in Leaf
      BY Leaves
    <3> QED
      BY <1>1, <2>2, <3>2, <3>3 DEF ClickSplit
  <2> QED
    BY <1>26, <1>2, <1>4, <1>14, <1>15, <1>18, <1>19, <2>1, <2>2, CloserAssumption
       DEF TabStep
<1>27. ASSUME NEW k \in Closer, CloserStep(k) PROVE LeafInv'
  BY <1>27, <1>11, <1>12, <1>20, <1>21, <1>24 DEF CloserStep
<1>28. ASSUME TabsNext PROVE LeafInv'
  BY <1>28, <1>25, <1>26, <1>27 DEF TabsNext
<1> QED
  BY <1>23, <1>28

---------------------------------------------------------------------------
(* For a tab a step does not write, what it leaves as it was ...           *)
Frame(t) ==
  /\ pane'[t] = pane[t] /\ layout'[t] = layout[t]
  /\ Exists(t) => Exists(t)'
  /\ status'[t] = "closed" => status[t] = "closed" \/ pane[t] = {}
  /\ \A c \in Conn : call'[c].tab = t /\ call'[c].state # "unused" => call'[c] = call[c]
  /\ \A c \in Conn : Pend(c) \in layout[t] => call'[c] = call[c]
  /\ \A k \in Closer : closer'[k].tab = t =>
       /\ closer[k].tab = t
       /\ closer'[k].mode = closer[k].mode
       /\ closer'[k].snap = closer[k].snap
       /\ \A c \in entries' : Sess(c) \in closer[k].todo => Sess(c) \in closer'[k].todo
  /\ \A d \in entries' : d \in entries \/ call[d].state # "settled"

(* ... is enough for it to stay calm.                                      *)
LEMMA CalmFrame ==
  ASSUME RegTypeOK, RegTypeOK', TabLeaves, FromLeaves, NEW t \in Tab, Calm(t), Frame(t)
  PROVE  Calm(t)'
<1>1. \A c \in Conn : Flies(c, t)' => Flies(c, t) /\ call'[c] = call[c]
  BY DEF Flies, Frame
<1>2. \A c \in Conn : Home(c, t)' => Home(c, t)
  BY DEF Home, Frame
<1>3. entries' \subseteq Conn
  BY DEF RegTypeOK
<1>4. \A c \in entries' : call[c].state = "settled" => c \in entries
  BY DEF Frame
<1>5. pane'[t] = pane[t] /\ layout'[t] = layout[t]
  BY DEF Frame
<1>6. Alone(t)'
  BY <1>1 DEF Calm, Alone, Frame
<1>7. Shape(t)'
  <2>1. \A c \in Conn : Pend(c) \in layout[t] => Flies(c, t)' /\ call'[c].state # "clicked"
    BY DEF Calm, Shape, Frame, Flies
  <2> QED
    BY <1>5, <2>1 DEF Calm, Shape, Frame
<1>8. Awaited(t)'
  BY <1>1 DEF Calm, Awaited, Frame
<1>9. Blank(t)'
  BY <1>1, <1>5 DEF Calm, Blank
<1>10. CanSplit(t)'
  <2>1. \A c, d \in Conn : call[c].from = Sess(d) => call[d].state = "settled"
    BY DEF FromLeaves, Home
  <2> QED
    BY <1>1, <1>3, <1>4, <1>5, <2>1 DEF Calm, CanSplit
<1>11. CanRevert(t)'
  <2>1. \A d \in Conn : Sess(d) \in layout[t] => call[d].state = "settled"
    BY DEF TabLeaves, Home
  <2> QED
    BY <1>1, <1>3, <1>4, <1>5, <2>1 DEF Calm, CanRevert
<1>12. Closes(t)'
  <2>1. \A k \in Closer, c \in entries' :
          (closer[k].tab = t /\ closer[k].mode = "tab" /\ Home(c, t))' => (Sess(c) \in closer[k].todo)'
    BY <1>2, <1>3, <1>4 DEF Calm, Closes, Frame, Home
  <2>2. \A k \in Closer : (closer[k].tab = t /\ closer[k].mode = "pane" => closer[k].snap = layout[t])'
    BY <1>5 DEF Calm, Closes, Frame
  <2> QED
    BY <2>1, <2>2 DEF Closes
<1>13. NoneLost(t)'
  BY <1>2, <1>3, <1>4, <1>5 DEF Calm, NoneLost, Held, Home
<1> QED
  BY <1>6, <1>7, <1>8, <1>9, <1>10, <1>11, <1>12, <1>13 DEF Calm

(* After a step that leaves nothing in flight on it, a tab is calm if it   *)
(* has its shape and its sessions.                                         *)
LEMMA CalmAtRest ==
  ASSUME NEW t \in Tab, \A c \in Conn : ~Flies(c, t)', \A k \in Closer : closer'[k].tab # t,
         Shape(t)', NoneLost(t)'
  PROVE  Calm(t)'
BY DEF Calm, Alone, Awaited, Blank, CanSplit, CanRevert, Closes

(* What a call needs of the tab it is the only one over.                   *)
Served(c, t) ==
  /\ call[c].state # "clicked" => Exists(t)
  /\ call[c].by # "split" => pane[t] = {} /\ layout[t] = {}
  /\ call[c].by = "split" /\ call[c].state = "clicked" =>
       \/ call[c].from \in layout[t]
       \/ /\ layout[t] = {}
          /\ pane[t] \subseteq {call[c].from}
          /\ pane[t] = {} => \A d \in entries : call[c].from # Sess(d)
  /\ call[c].by = "split" /\ call[c].state # "clicked" =>
       /\ Pend(c) \in layout[t]
       /\ \/ \E x, y \in layout[t] \ {Pend(c)} : x # y
          \/ \A d \in entries : Sess(d) \in layout[t] => Sess(d) \in pane[t]

(* With that, and its shape and its sessions, the tab is calm ...          *)
LEMMA CalmUnderCall ==
  ASSUME NEW t \in Tab, NEW c \in Conn,
         \A d \in Conn : Flies(d, t)' => d = c, \A k \in Closer : closer'[k].tab # t,
         Shape(t)', NoneLost(t)', Served(c, t)'
  PROVE  Calm(t)'
<1>1. Alone(t)' /\ Closes(t)'
  BY DEF Alone, Closes
<1>2. Awaited(t)' /\ Blank(t)'
  BY DEF Awaited, Blank, Served
<1>3. CanSplit(t)'
  BY DEF CanSplit, Served
<1>4. CanRevert(t)'
  BY DEF CanRevert, Served
<1> QED
  BY <1>1, <1>2, <1>3, <1>4 DEF Calm

(* ... and under a single closing call if that has what it needs.          *)
LEMMA CalmUnderCloser ==
  ASSUME NEW t \in Tab, NEW k \in Closer,
         \A c \in Conn : ~Flies(c, t)', \A l \in Closer : closer'[l].tab = t => l = k,
         Shape(t)', NoneLost(t)',
         closer'[k].mode = "tab" => \A c \in entries' : Home(c, t)' => Sess(c) \in closer'[k].todo,
         closer'[k].mode = "pane" => closer'[k].snap = layout'[t]
  PROVE  Calm(t)'
<1>1. Alone(t)' /\ Awaited(t)' /\ Blank(t)' /\ CanSplit(t)' /\ CanRevert(t)'
  BY DEF Alone, Awaited, Blank, CanSplit, CanRevert
<1>2. Closes(t)'
  BY DEF Closes
<1> QED
  BY <1>1, <1>2 DEF Calm

(* What the lemmas on the single steps use of the invariant.               *)
Before == /\ RegTypeOK /\ ViewTypes /\ CallTypes /\ CloserTypes
          /\ RegTypeOK' /\ CallTypes' /\ CloserTypes'
          /\ LeafInv /\ AllCalm

(* A step that writes one tab leaves the others in their frame: it keeps   *)
(* their calm, and its own tab's has to be seen.                           *)
LEMMA CalmElsewhere ==
  ASSUME Before, crowded \subseteq crowded', NEW t,
         \A u \in Tab \ crowded : u # t => Frame(u),
         t \in Tab \ crowded' => Calm(t)'
  PROVE  AllCalm'
<1> SUFFICES ASSUME NEW u \in Tab, u \notin crowded' PROVE Calm(u)'
  BY DEF AllCalm
<1>1. Calm(u)
  BY DEF Before, AllCalm
<1>2. CASE u = t
  <2>1. /\ Alone(t)' /\ Shape(t)' /\ Awaited(t)' /\ Blank(t)'
        /\ CanSplit(t)' /\ CanRevert(t)' /\ Closes(t)' /\ NoneLost(t)'
    BY <1>2 DEF Calm
  <2>2. Alone(u)' /\ Shape(u)' /\ Awaited(u)' /\ Blank(u)'
    BY <1>2, <2>1 DEF Alone, Shape, Awaited, Blank, Flies, Exists
  <2>3. CanSplit(u)' /\ CanRevert(u)'
    BY <1>2, <2>1 DEF CanSplit, CanRevert, Flies
  <2>4. Closes(u)' /\ NoneLost(u)'
    BY <1>2, <2>1 DEF Closes, NoneLost, Home, Held
  <2> QED
    BY <2>2, <2>3, <2>4 DEF Calm
<1>3. CASE u # t
  BY <1>1, <1>3, CalmFrame DEF Before, LeafInv
<1> QED
  BY <1>2, <1>3

(* A click on a tab is over it alone, or it crowds.                        *)
LEMMA CalmClick ==
  ASSUME Before, NEW c \in Conn, NEW t \in Tab,
         \/ ClickReconnect(c, t)
         \/ \E c2 \in Conn : ClickSplit(c, t, c2)
  PROVE  AllCalm'
<1>1. /\ call[c].state = "unused"
      /\ UNCHANGED <<entries, status, pane, layout, closer>>
      /\ crowded' = IF t # None /\ Busy(t) THEN crowded \cup {t} ELSE crowded
      /\ \A d \in Conn : d # c => call'[d] = call[d]
      /\ call'[c].tab = t /\ call'[c].state = "clicked"
  <2>1. \E by \in {"reconnect", "split"}, from \in Leaf \cup {None} : Click(c, by, t, from)
    BY DEF ClickReconnect, ClickSplit, Leaf, Sess
  <2> QED
    BY <2>1 DEF Click, Crowds, backend, tabVars, Before, CallTypes
<1>2. ASSUME NEW u \in Tab \ crowded, u # t PROVE Frame(u)
  BY <1>1, <1>2 DEF Before, AllCalm, Calm, Shape, Frame, Flies, Exists
<1>3. ASSUME t \in Tab \ crowded' PROVE Calm(t)'
  <2>1. /\ Calm(t) /\ t # None
        /\ \A d \in Conn : ~Flies(d, t)
        /\ \A k \in Closer : closer[k].tab # t
    BY <1>1, <1>3, NoneAssumption DEF Before, AllCalm, Busy, Flies
  <2>2. \A d \in Conn : Flies(d, t)' => d = c
    BY <1>1, <2>1 DEF Flies
  <2>3. Shape(t)'
    BY <1>1, <2>1 DEF Calm, Shape, Flies
  <2>4. NoneLost(t)'
    BY <1>1, <2>1 DEF Calm, NoneLost, Home, Held, Before, RegTypeOK
  <2>5. Served(c, t)'
    <3>1. CASE ClickReconnect(c, t)
      <4>1. call'[c].by = "reconnect" /\ status[t] = "closed" /\ layout[t] = {}
        BY <3>1 DEF ClickReconnect, Click, Before, CallTypes
      <4>2. pane[t] = {}
        BY <2>1, <4>1 DEF Calm, Shape
      <4> QED
        BY <1>1, <4>1, <4>2 DEF Served
    <3>2. ASSUME NEW c2 \in Conn, ClickSplit(c, t, c2) PROVE Served(c, t)'
      <4>1. call'[c].by = "split" /\ call'[c].from = Sess(c2)
        BY <3>2 DEF ClickSplit, Click, Before, CallTypes
      <4>2. Sess(c2) \in IF layout[t] # {} THEN layout[t] ELSE pane[t]
        BY <3>2 DEF ClickSplit, Terminals, SessionsIn
      <4>3. CASE layout[t] # {}
        BY <1>1, <4>1, <4>2, <4>3 DEF Served
      <4>4. CASE layout[t] = {}
        <5>1. pane[t] \subseteq {Sess(c2)} /\ pane[t] # {}
          BY <2>1, <4>2, <4>4 DEF Calm, Shape
        <5> QED
          BY <1>1, <4>1, <4>4, <5>1 DEF Served
      <4> QED
        BY <4>3, <4>4
    <3> QED
      BY <3>1, <3>2
  <2> QED
    BY <1>1, <2>1, <2>2, <2>3, <2>4, <2>5, CalmUnderCall
<1> QED
  BY <1>1, <1>2, <1>3, CalmElsewhere

(* What a call that starts on a tab without panes does to it.              *)
LEMMA CalmStart ==
  ASSUME Before, NEW c \in Conn, NEW t \in Tab, NEW by \in {"open", "reconnect", "auto"},
         UNCHANGED <<entries, closer>>,
         status' = [status EXCEPT ![t] = "connecting"],
         pane' = [pane EXCEPT ![t] = {}],
         layout' = [layout EXCEPT ![t] = {}],
         call' = [call EXCEPT ![c] = [state |-> "sent", by |-> by, tab |-> t, from |-> None]],
         call[c].state \in {"unused", "clicked"},
         crowded \subseteq crowded',
         t \in Tab \ crowded' =>
           /\ t \notin crowded
           /\ pane[t] = {} /\ layout[t] = {}
           /\ \A d \in Conn : Flies(d, t) => d = c
           /\ \A k \in Closer : closer[k].tab # t
  PROVE  AllCalm'
<1>1. /\ \A d \in Conn : d # c => call'[d] = call[d]
      /\ call'[c].tab = t /\ call'[c].state = "sent" /\ call'[c].by = by
      /\ pane'[t] = {} /\ layout'[t] = {} /\ status'[t] = "connecting"
      /\ \A u \in Tab : u # t => /\ pane'[u] = pane[u] /\ layout'[u] = layout[u]
                                 /\ status'[u] = status[u]
  BY DEF Before, CallTypes, ViewTypes
<1>2. ASSUME NEW u \in Tab \ crowded, u # t PROVE Frame(u)
  <2>1. Calm(u)
    BY <1>2 DEF Before, AllCalm
  <2>2. Pend(c) \notin layout[u]
    BY <2>1 DEF Calm, Shape, Flies
  <2> QED
    BY <1>1, <1>2, <2>2 DEF Frame, Exists
<1>3. ASSUME t \in Tab \ crowded' PROVE Calm(t)'
  <2>1. Calm(t)
    BY <1>3 DEF Before, AllCalm
  <2>2. \A d \in Conn : Flies(d, t)' => d = c
    BY <1>1, <1>3 DEF Flies
  <2>3. Shape(t)'
    BY <1>1 DEF Shape
  <2>4. NoneLost(t)'
    BY <1>1, <1>3, <2>1 DEF Calm, NoneLost, Home, Held, Before, RegTypeOK
  <2>5. Served(c, t)'
    BY <1>1 DEF Served, Exists
  <2> QED
    BY <1>3, <2>2, <2>3, <2>4, <2>5, CalmUnderCall
<1> QED
  BY <1>2, <1>3, CalmElsewhere

(* openTab, reconnect and maybeAutoReconnect are such calls.               *)
LEMMA CalmStarts ==
  ASSUME Before, NEW c \in Conn,
         \/ Reconnect(c)
         \/ \E t \in Tab : OpenTab(c, t) \/ AutoFires(t, c)
  PROVE  AllCalm'
<1>1. CASE Reconnect(c)
  <2> DEFINE t == call[c].tab
  <2>1. /\ call[c].state = "clicked" /\ call[c].by = "reconnect" /\ t \in Tab
        /\ UNCHANGED <<entries, closer, crowded>>
    BY <1>1 DEF Reconnect, Before, LeafInv, CallsNameTabs, backend
  <2>2. /\ status' = [status EXCEPT ![t] = "connecting"]
        /\ pane' = [pane EXCEPT ![t] = {}]
        /\ layout' = [layout EXCEPT ![t] = {}]
        /\ call' = [call EXCEPT ![c] = [state |-> "sent", by |-> "reconnect", tab |-> t, from |-> None]]
    BY <1>1, SetTabWrites DEF Reconnect, StartReconnect
  <2>3. t \in Tab \ crowded' =>
           /\ t \notin crowded
           /\ pane[t] = {} /\ layout[t] = {}
           /\ \A d \in Conn : Flies(d, t) => d = c
           /\ \A k \in Closer : closer[k].tab # t
    <3> HAVE t \in Tab \ crowded'
    <3>1. Calm(t) /\ Flies(c, t)
      BY <2>1 DEF Before, AllCalm, Flies
    <3> QED
      BY <2>1, <3>1 DEF Calm, Alone, Blank
  <2> QED
    BY <2>1, <2>2, <2>3, CalmStart
<1>2. ASSUME NEW t \in Tab, OpenTab(c, t) PROVE AllCalm'
  <2>1. /\ call[c].state = "clicked" /\ call[c].by = "open" /\ status[t] = "absent"
        /\ UNCHANGED <<entries, closer>>
        /\ crowded' = IF Busy(t) THEN crowded \cup {t} ELSE crowded
    BY <1>2 DEF OpenTab, Crowds, backend
  <2>2. /\ status' = [status EXCEPT ![t] = "connecting"]
        /\ pane' = [pane EXCEPT ![t] = {}]
        /\ layout' = [layout EXCEPT ![t] = {}]
        /\ call' = [call EXCEPT ![c] = [state |-> "sent", by |-> "open", tab |-> t, from |-> None]]
    BY <1>2, SetTabWrites DEF OpenTab
  <2>3. pane[t] = {} /\ layout[t] = {}
    BY <2>1 DEF Before, LeafInv, HoldersExist, Exists
  <2>4. t \in Tab \ crowded' =>
           /\ t \notin crowded
           /\ \A d \in Conn : Flies(d, t) => d = c
           /\ \A k \in Closer : closer[k].tab # t
    BY <2>1 DEF Busy, Flies
  <2> QED
    BY <2>1, <2>2, <2>3, <2>4, CalmStart
<1>3. ASSUME NEW t \in Tab, AutoFires(t, c) PROVE AllCalm'
  <2>1. /\ call[c].state = "unused" /\ status[t] = "closed"
        /\ UNCHANGED <<entries, closer>>
        /\ crowded' = IF Busy(t) \/ Held(t) # {} THEN crowded \cup {t} ELSE crowded
    BY <1>3 DEF AutoFires, Crowds, backend
  <2>2. /\ status' = [status EXCEPT ![t] = "connecting"]
        /\ pane' = [pane EXCEPT ![t] = {}]
        /\ layout' = [layout EXCEPT ![t] = {}]
        /\ call' = [call EXCEPT ![c] = [state |-> "sent", by |-> "auto", tab |-> t, from |-> None]]
    BY <1>3, SetTabWrites DEF AutoFires, StartReconnect
  <2>3. t \in Tab \ crowded' =>
           /\ t \notin crowded
           /\ pane[t] = {} /\ layout[t] = {}
           /\ \A d \in Conn : Flies(d, t) => d = c
           /\ \A k \in Closer : closer[k].tab # t
    BY <2>1 DEF Busy, Flies, Held
  <2> QED
    BY <2>1, <2>2, <2>3, CalmStart
<1> QED
  BY <1>1, <1>2, <1>3

(* splitPane's first half.                                                 *)
LEMMA CalmSplit ==
  ASSUME Before, NEW c \in Conn, SplitPane(c)
  PROVE  AllCalm'
<1>1. PICK t \in Tab : t = call[c].tab
  BY DEF Before, LeafInv, CallsNameTabs, SplitPane
<1>2. PICK f \in Conn : call[c].from = Sess(f)
  BY DEF Before, LeafInv, SplitsHaveFrom, SplitPane
<1>3. PICK new : new = IF Sess(f) \in (IF layout[t] # {} THEN layout[t] ELSE {Sess(f)})
                         THEN (IF layout[t] # {} THEN layout[t] ELSE {Sess(f)}) \cup {Pend(c)}
                         ELSE (IF layout[t] # {} THEN layout[t] ELSE {Sess(f)})
  OBVIOUS
<1>4. /\ call[c].state = "clicked" /\ call[c].by = "split" /\ Exists(t)
      /\ status' = [status EXCEPT ![t] = status[t]]
      /\ pane' = [pane EXCEPT ![t] = pane[t]]
      /\ layout' = [layout EXCEPT ![t] = new]
      /\ call' = [call EXCEPT ![c] = [state |-> "sent", by |-> "split", tab |-> t, from |-> None]]
      /\ UNCHANGED <<entries, closer, crowded>>
  BY <1>1, <1>2, <1>3, SetTabWrites DEF SplitPane, backend
<1>5. /\ \A d \in Conn : d # c => call'[d] = call[d]
      /\ call'[c].tab = t /\ call'[c].state = "sent" /\ call'[c].by = "split"
      /\ status' = status /\ pane' = pane /\ layout'[t] = new
      /\ \A u \in Tab : u # t => layout'[u] = layout[u]
  BY <1>4 DEF Before, CallTypes, ViewTypes
<1>6. ASSUME NEW u \in Tab \ crowded, u # t PROVE Frame(u)
  <2>1. Pend(c) \notin layout[u]
    BY <1>4, <1>6 DEF Before, AllCalm, Calm, Shape
  <2> QED
    BY <1>4, <1>5, <1>6, <2>1 DEF Frame, Exists
<1>7. ASSUME t \in Tab \ crowded' PROVE Calm(t)'
  <2>1. Calm(t) /\ Flies(c, t)
    BY <1>1, <1>4, <1>7 DEF Before, AllCalm, Flies
  <2>2. /\ \A d \in Conn : Flies(d, t) => d = c
        /\ \A k \in Closer : closer[k].tab # t
    BY <2>1 DEF Calm, Alone
  <2>3. /\ \A d \in Conn : Flies(d, t)' => d = c
        /\ \A k \in Closer : closer'[k].tab # t
    BY <1>4, <1>5, <2>2 DEF Flies
  <2>4. \A d \in Conn : Pend(d) \notin layout[t]
    BY <1>4, <2>1, <2>2 DEF Calm, Shape
  <2>5. \/ Sess(f) \in layout[t] /\ new = layout[t] \cup {Pend(c)}
        \/ /\ layout[t] = {} /\ new = {Sess(f), Pend(c)}
           /\ pane[t] \subseteq {Sess(f)}
           /\ pane[t] = {} => f \notin entries
    BY <1>2, <1>3, <1>4, <2>1, Leaves DEF Calm, CanSplit, Before, RegTypeOK
  <2>6. Shape(t)'
    <3>1. \A d \in Conn : Pend(d) \in new => d = c
      BY <2>4, <2>5, Leaves DEF Pend, Sess
    <3>2. \E x, y \in new : x # y
      <4>1. Sess(f) # Pend(c) /\ Sess(f) \in new /\ Pend(c) \in new
        BY <2>5, Leaves
      <4> QED
        BY <4>1
    <3>3. \A d \in Conn : Pend(d) \in new => Flies(d, t)' /\ call'[d].state # "clicked"
      BY <1>5, <3>1 DEF Flies
    <3> QED
      BY <1>5, <2>1, <3>2, <3>3 DEF Calm, Shape
  <2>7. NoneLost(t)'
    <3>1. \A d \in entries : Home(d, t)' => Home(d, t)
      BY <1>5 DEF Home, Before, RegTypeOK
    <3>2. \A d \in entries : Home(d, t) => Sess(d) \in new
      <4> TAKE d \in entries
      <4> HAVE Home(d, t)
      <4>1. d \in Conn /\ Sess(d) \in Held(t)
        BY <2>1 DEF Calm, NoneLost, Before, RegTypeOK
      <4> QED
        BY <2>5, <4>1, Leaves DEF Held
    <3> QED
      BY <1>4, <1>5, <2>5, <3>1, <3>2 DEF NoneLost, Held, Home
  <2>8. Served(c, t)'
    <3>1. Pend(c) \in new
      BY <2>5
    <3>2. \/ \E x, y \in new \ {Pend(c)} : x # y
          \/ \A d \in entries : Sess(d) \in new => Sess(d) \in pane[t]
      <4>1. CASE Sess(f) \in layout[t] /\ new = layout[t] \cup {Pend(c)}
        <5>1. PICK x, y \in layout[t] : x # y
          BY <2>1, <4>1 DEF Calm, Shape
        <5>2. x \in new \ {Pend(c)} /\ y \in new \ {Pend(c)}
          BY <2>4, <4>1
        <5> QED
          BY <5>1, <5>2
      <4>2. CASE /\ layout[t] = {} /\ new = {Sess(f), Pend(c)}
                 /\ pane[t] \subseteq {Sess(f)}
                 /\ pane[t] = {} => f \notin entries
        <5>1. \A d \in entries : Sess(d) \in new => d = f
          BY <4>2, Leaves DEF Before, RegTypeOK
        <5> QED
          BY <4>2, <5>1
      <4> QED
        BY <2>5, <4>1, <4>2
    <3> QED
      BY <1>4, <1>5, <3>1, <3>2 DEF Served, Exists
  <2> QED
    BY <2>3, <2>6, <2>7, <2>8, CalmUnderCall
<1> QED
  BY <1>4, <1>6, <1>7, CalmElsewhere

(* The backend has opened a session: its call flies on.                    *)
LEMMA CalmOpens ==
  ASSUME Before, NEW c \in Conn, BackendOpens(c)
  PROVE  AllCalm'
<1>1. PICK t \in Tab : t = call[c].tab
  BY DEF Before, LeafInv, CallsNameTabs, BackendOpens
<1>2. /\ call[c].state = "sent" /\ call'[c].state = "opened"
      /\ call'[c].by = call[c].by /\ call'[c].tab = t
      /\ \A d \in Conn : d # c => call'[d] = call[d]
      /\ entries' = entries \cup {c}
      /\ UNCHANGED <<status, pane, layout, closer, crowded>>
  BY <1>1 DEF BackendOpens, Register, tabVars, Before, CallTypes, CallRecord
<1>3. ASSUME NEW u \in Tab \ crowded, u # t PROVE Frame(u)
  <2>1. Pend(c) \notin layout[u]
    BY <1>1, <1>3 DEF Before, AllCalm, Calm, Shape, Flies
  <2>2. \A d \in entries' : d \in entries \/ call[d].state # "settled"
    BY <1>2
  <2> QED
    BY <1>2, <1>3, <2>1, <2>2 DEF Frame, Exists
<1>4. ASSUME t \in Tab \ crowded' PROVE Calm(t)'
  <2>1. Calm(t) /\ Flies(c, t)
    BY <1>1, <1>2, <1>4 DEF Before, AllCalm, Flies
  <2>2. /\ \A d \in Conn : Flies(d, t)' => d = c
        /\ \A k \in Closer : closer'[k].tab # t
    BY <1>2, <2>1 DEF Calm, Alone, Flies
  <2>3. Shape(t)'
    <3>1. \A d \in Conn : Pend(d) \in layout[t] => Flies(d, t)' /\ call'[d].state # "clicked"
      BY <1>2, <2>1 DEF Calm, Shape, Flies
    <3> QED
      BY <1>2, <2>1, <3>1 DEF Calm, Shape
  <2>4. NoneLost(t)'
    <3>1. \A d \in entries' : Home(d, t)' => d \in entries /\ Home(d, t)
      BY <1>2 DEF Home, Before, RegTypeOK
    <3> QED
      BY <1>2, <2>1, <3>1 DEF Calm, NoneLost, Held, Home
  <2>5. Served(c, t)'
    <3>1. Exists(t)' /\ (call'[c].by # "split" => pane'[t] = {} /\ layout'[t] = {})
      BY <1>2, <2>1 DEF Calm, Awaited, Blank, Exists
    <3>2. call'[c].by = "split" =>
            /\ Pend(c) \in layout'[t]
            /\ \/ \E x, y \in layout'[t] \ {Pend(c)} : x # y
               \/ \A d \in entries' : Sess(d) \in layout'[t] => Sess(d) \in pane'[t]
      <4>1. Sess(c) \notin layout[t]
        BY <1>2 DEF Before, LeafInv, TabLeaves, Home
      <4> QED
        BY <1>2, <2>1, <4>1 DEF Calm, CanRevert
    <3> QED
      BY <1>2, <3>1, <3>2 DEF Served
  <2> QED
    BY <2>2, <2>3, <2>4, <2>5, CalmUnderCall
<1> QED
  BY <1>2, <1>3, <1>4, CalmElsewhere

(* An answered call leaves nothing in flight on its tab.                   *)
LEMMA CalmAnswer ==
  ASSUME Before, NEW c \in Conn, NEW t \in Tab, call[c].tab = t,
         call[c].state \in {"sent", "opened"},
         UNCHANGED <<entries, closer, crowded>>,
         \A d \in Conn : d # c => call'[d] = call[d],
         call'[c].tab \in {t, None}, call'[c].state \in {"unused", "settled"},
         \A u \in Tab : u # t => /\ pane'[u] = pane[u] /\ layout'[u] = layout[u]
                                 /\ status'[u] = status[u],
         t \notin crowded /\ Calm(t) =>
            /\ \A x, y \in pane'[t] : x = y
            /\ status'[t] = "closed" => pane'[t] = {}
            /\ layout'[t] # {} => \E x, y \in layout'[t] : x # y
            /\ layout'[t] \subseteq (layout[t] \ {Pend(c)}) \cup {Sess(c)}
            /\ NoneLost(t)'
  PROVE  AllCalm'
<1>1. ASSUME NEW u \in Tab \ crowded, u # t PROVE Frame(u)
  <2>1. Pend(c) \notin layout[u]
    BY <1>1 DEF Before, AllCalm, Calm, Shape, Flies
  <2> QED
    BY <1>1, <2>1, NoneAssumption DEF Frame, Exists
<1>2. ASSUME t \in Tab \ crowded' PROVE Calm(t)'
  <2>1. Calm(t) /\ Flies(c, t)
    BY <1>2 DEF Before, AllCalm, Flies
  <2>2. /\ \A d \in Conn : Flies(d, t) => d = c
        /\ \A d \in Conn : ~Flies(d, t)'
        /\ \A k \in Closer : closer'[k].tab # t
    BY <2>1 DEF Calm, Alone, Flies
  <2>3. \A d \in Conn : Pend(d) \notin layout'[t]
    <3>1. \A d \in Conn : Pend(d) \in layout[t] => d = c
      BY <2>1, <2>2 DEF Calm, Shape
    <3> QED
      BY <1>2, <2>1, <3>1, Leaves
  <2>4. Shape(t)'
    BY <1>2, <2>1, <2>3 DEF Shape
  <2> QED
    BY <1>2, <2>1, <2>2, <2>4, CalmAtRest
<1> QED
  BY <1>1, <1>2, CalmElsewhere

(* A tab call that yields a session shows it.                              *)
LEMMA CalmResolves ==
  ASSUME Before, NEW c \in Conn, TabCallResolves(c)
  PROVE  AllCalm'
<1>1. PICK t \in Tab : t = call[c].tab
  BY DEF Before, LeafInv, CallsNameTabs, TabCallResolves
<1>2. /\ call[c].state = "opened" /\ call[c].by # "split"
      /\ UNCHANGED <<entries, closer, crowded>>
      /\ \A d \in Conn : d # c => call'[d] = call[d]
      /\ call'[c].tab = t /\ call'[c].state = "settled"
  BY <1>1 DEF TabCallResolves, Settle, backend, Before, CallTypes
<1>3. \A u \in Tab : u # t => /\ pane'[u] = pane[u] /\ layout'[u] = layout[u]
                              /\ status'[u] = status[u]
  BY <1>1, SetTabWrites DEF TabCallResolves, tabVars, Before, ViewTypes
<1>4. ASSUME t \notin crowded, Calm(t)
      PROVE  /\ \A x, y \in pane'[t] : x = y
             /\ status'[t] = "closed" => pane'[t] = {}
             /\ layout'[t] # {} => \E x, y \in layout'[t] : x # y
             /\ layout'[t] \subseteq (layout[t] \ {Pend(c)}) \cup {Sess(c)}
             /\ NoneLost(t)'
  <2>1. Flies(c, t) /\ Exists(t) /\ pane[t] = {} /\ layout[t] = {}
    BY <1>1, <1>2, <1>4 DEF Calm, Awaited, Blank, Flies
  <2>2. status'[t] = "open" /\ pane'[t] = {Sess(c)} /\ layout'[t] = {}
    BY <1>1, <2>1, SetTabWrites DEF TabCallResolves, Before, ViewTypes
  <2>3. \A d \in entries : Home(d, t)' => d = c
    BY <1>2, <1>4, <2>1 DEF Home, Calm, NoneLost, Held, Before, RegTypeOK
  <2>4. NoneLost(t)'
    BY <1>2, <2>2, <2>3 DEF NoneLost, Held, Home
  <2> QED
    BY <2>2, <2>4
<1> QED
  BY <1>1, <1>2, <1>3, <1>4, CalmAnswer

(* One that fails had nothing to lose.                                     *)
LEMMA CalmRejects ==
  ASSUME Before, NEW c \in Conn, TabCallRejects(c)
  PROVE  AllCalm'
<1>1. PICK t \in Tab : t = call[c].tab
  BY DEF Before, LeafInv, CallsNameTabs, TabCallRejects
<1>2. /\ call[c].state = "sent" /\ call[c].by # "split"
      /\ UNCHANGED <<entries, closer, crowded>>
      /\ \A d \in Conn : d # c => call'[d] = call[d]
      /\ call'[c].tab = None /\ call'[c].state = "unused"
  BY <1>1 DEF TabCallRejects, NoCall, backend, Before, CallTypes
<1>3. \A u \in Tab : u # t => /\ pane'[u] = pane[u] /\ layout'[u] = layout[u]
                              /\ status'[u] = status[u]
  BY <1>1, SetTabWrites DEF TabCallRejects, SetClosed, tabVars, Before, ViewTypes
<1>4. ASSUME t \notin crowded, Calm(t)
      PROVE  /\ \A x, y \in pane'[t] : x = y
             /\ status'[t] = "closed" => pane'[t] = {}
             /\ layout'[t] # {} => \E x, y \in layout'[t] : x # y
             /\ layout'[t] \subseteq (layout[t] \ {Pend(c)}) \cup {Sess(c)}
             /\ NoneLost(t)'
  <2>1. Flies(c, t) /\ Exists(t) /\ pane[t] = {} /\ layout[t] = {}
    BY <1>1, <1>2, <1>4 DEF Calm, Awaited, Blank, Flies
  <2>2. pane'[t] = {} /\ layout'[t] = {}
    BY <1>1, <2>1, SetTabWrites DEF TabCallRejects, SetClosed, Before, ViewTypes
  <2>3. \A d \in entries : ~Home(d, t)'
    BY <1>2, <1>4, <2>1, NoneAssumption DEF Home, Calm, NoneLost, Held, Before, RegTypeOK
  <2>4. NoneLost(t)'
    BY <1>2, <2>3 DEF NoneLost, Home
  <2> QED
    BY <2>2, <2>4
<1> QED
  BY <1>1, <1>2, <1>3, <1>4, CalmAnswer

(* A split that yields a session puts it in the place of its leaf.         *)
LEMMA CalmSplits ==
  ASSUME Before, NEW c \in Conn, SplitResolves(c)
  PROVE  AllCalm'
<1>1. PICK t \in Tab : t = call[c].tab
  BY DEF Before, LeafInv, CallsNameTabs, SplitResolves
<1>2. /\ call[c].state = "opened" /\ call[c].by = "split"
      /\ UNCHANGED <<entries, closer, crowded>>
      /\ \A d \in Conn : d # c => call'[d] = call[d]
      /\ call'[c].tab = t /\ call'[c].state = "settled"
  BY <1>1 DEF SplitResolves, Settle, backend, Before, CallTypes
<1>3. \A u \in Tab : u # t => /\ pane'[u] = pane[u] /\ layout'[u] = layout[u]
                              /\ status'[u] = status[u]
  BY <1>1, SetTabWrites DEF SplitResolves, tabVars, Before, ViewTypes
<1>4. ASSUME t \notin crowded, Calm(t)
      PROVE  /\ \A x, y \in pane'[t] : x = y
             /\ status'[t] = "closed" => pane'[t] = {}
             /\ layout'[t] # {} => \E x, y \in layout'[t] : x # y
             /\ layout'[t] \subseteq (layout[t] \ {Pend(c)}) \cup {Sess(c)}
             /\ NoneLost(t)'
  <2>1. Flies(c, t) /\ Exists(t) /\ Pend(c) \in layout[t]
    BY <1>1, <1>2, <1>4 DEF Calm, Awaited, CanRevert, Flies
  <2>2. /\ status'[t] = status[t] /\ pane'[t] = pane[t]
        /\ layout'[t] = (layout[t] \ {Pend(c)}) \cup {Sess(c)}
    BY <1>1, <2>1, SetTabWrites DEF SplitResolves, Before, ViewTypes
  <2>3. \E x, y \in layout'[t] : x # y
    <3>1. Sess(c) \notin layout[t]
      BY <1>2 DEF Before, LeafInv, TabLeaves, Home
    <3>2. PICK x \in layout[t] : x # Pend(c)
      BY <1>4, <2>1 DEF Calm, Shape
    <3> QED
      BY <2>2, <3>1, <3>2
  <2>4. NoneLost(t)'
    <3>1. \A d \in entries : Home(d, t)' => d = c \/ (d \in Conn /\ Sess(d) \in layout[t])
      BY <1>2, <1>4, <2>1 DEF Home, Calm, NoneLost, Held, Before, RegTypeOK
    <3> QED
      BY <1>2, <2>2, <3>1, Leaves DEF NoneLost, Held, Home
  <2> QED
    BY <1>4, <2>2, <2>3, <2>4 DEF Calm, Shape
<1> QED
  BY <1>1, <1>2, <1>3, <1>4, CalmAnswer

(* One that fails takes its leaf out.                                      *)
LEMMA CalmReverts ==
  ASSUME Before, NEW c \in Conn, SplitRejects(c)
  PROVE  AllCalm'
<1>1. PICK t \in Tab : t = call[c].tab
  BY DEF Before, LeafInv, CallsNameTabs, SplitRejects
<1>2. /\ call[c].state = "sent" /\ call[c].by = "split" /\ c \notin entries
      /\ UNCHANGED <<entries, closer, crowded>>
      /\ \A d \in Conn : d # c => call'[d] = call[d]
      /\ call'[c].tab = t /\ call'[c].state = "settled"
  BY <1>1 DEF SplitRejects, Settle, backend, Before, CallTypes, LeafInv, EntriesOpened
<1>3. PICK new : new = Collapsed(layout[t] \ {Pend(c)})
  OBVIOUS
<1>4. \/ /\ status' = [status EXCEPT ![t] = status[t]]
         /\ pane' = [pane EXCEPT ![t] = pane[t]]
         /\ layout' = [layout EXCEPT ![t] = new]
      \/ ~(Exists(t) /\ layout[t] # {}) /\ UNCHANGED <<tabVars, viewVars>>
  BY <1>1, <1>3, SetTabWrites DEF SplitRejects
<1>5. \A u \in Tab : u # t => /\ pane'[u] = pane[u] /\ layout'[u] = layout[u]
                              /\ status'[u] = status[u]
  BY <1>4 DEF tabVars, Before, ViewTypes
<1>6. ASSUME t \notin crowded, Calm(t)
      PROVE  /\ \A x, y \in pane'[t] : x = y
             /\ status'[t] = "closed" => pane'[t] = {}
             /\ layout'[t] # {} => \E x, y \in layout'[t] : x # y
             /\ layout'[t] \subseteq (layout[t] \ {Pend(c)}) \cup {Sess(c)}
             /\ NoneLost(t)'
  <2>1. Flies(c, t) /\ Exists(t) /\ Pend(c) \in layout[t]
    BY <1>1, <1>2, <1>6 DEF Calm, Awaited, CanRevert, Flies
  <2>2. status'[t] = status[t] /\ pane'[t] = pane[t] /\ layout'[t] = new
    BY <1>4, <2>1 DEF Before, ViewTypes
  <2>3. \/ new = {}
        \/ new = layout[t] \ {Pend(c)} /\ \E x, y \in new : x # y
    BY <1>3 DEF Collapsed
  <2>4. \A d \in entries : Home(d, t)' => d \in Conn /\ Sess(d) \in layout[t] \ {Pend(c)}
    BY <1>2, <1>6, <2>1, Leaves DEF Home, Calm, NoneLost, Held, Before, RegTypeOK
  <2>5. NoneLost(t)'
    <3>1. CASE new # {}
      BY <1>2, <2>2, <2>3, <2>4, <3>1 DEF NoneLost, Held, Home
    <3>2. CASE new = {}
      <4>1. \A d \in entries : Sess(d) \in layout[t] => Sess(d) \in pane[t]
        BY <1>2, <1>3, <1>6, <2>1, <3>2 DEF Calm, CanRevert, Collapsed
      <4> QED
        BY <1>2, <2>2, <2>4, <3>2, <4>1 DEF NoneLost, Held, Home
    <3> QED
      BY <3>1, <3>2
  <2> QED
    BY <1>6, <2>2, <2>3, <2>5 DEF Calm, Shape
<1> QED
  BY <1>1, <1>2, <1>5, <1>6, CalmAnswer

(* A step that writes no tab the property counts on.                       *)
LEMMA CalmAll ==
  ASSUME Before, crowded \subseteq crowded', \A u \in Tab \ crowded : Calm(u) => Frame(u)
  PROVE  AllCalm'
<1> SUFFICES ASSUME NEW u \in Tab, u \notin crowded' PROVE Calm(u)'
  BY DEF AllCalm
<1>1. Calm(u)
  BY DEF Before, AllCalm
<1> QED
  BY <1>1, CalmFrame DEF Before, LeafInv

(* The end of a session closes its tab, which has no other to lose.        *)
LEMMA CalmHears ==
  ASSUME Before, NEW c \in Conn, Hears(c), call[c].tab \in Tab,
         entries' = entries \ {c}, UNCHANGED <<call, closer>>
  PROVE  AllCalm'
<1>1. PICK t \in Tab : t = call[c].tab
  OBVIOUS
<1>2. /\ crowded' = IF pane[t] # {} /\ Sess(c) \notin Held(t) THEN crowded \cup {t} ELSE crowded
      /\ status' = [status EXCEPT ![t] = "closed"]
      /\ pane' = [pane EXCEPT ![t] = {}]
      /\ layout' = [layout EXCEPT ![t] = layout[t]]
  BY <1>1, SetTabWrites DEF Hears, SetClosed, Crowds
<1>3. /\ layout' = layout /\ pane'[t] = {} /\ status'[t] = "closed"
      /\ \A u \in Tab : u # t => pane'[u] = pane[u] /\ status'[u] = status[u]
  BY <1>2 DEF Before, ViewTypes
<1>4. ASSUME NEW u \in Tab \ crowded, u # t PROVE Frame(u)
  BY <1>3, <1>4 DEF Frame, Exists
<1>5. ASSUME t \in Tab \ crowded' PROVE Calm(t)'
  <2>1. Calm(t) /\ (pane[t] # {} => Sess(c) \in Held(t))
    BY <1>2, <1>5 DEF Before, AllCalm
  <2>2. Alone(t)' /\ Awaited(t)' /\ Blank(t)' /\ Shape(t)'
    BY <1>3, <2>1 DEF Calm, Alone, Awaited, Blank, Shape, Exists, Flies
  <2>3. \A d \in entries' : d \in Conn /\ d \in entries /\ d # c
    BY DEF Before, RegTypeOK
  <2>4. CanSplit(t)'
    <3> SUFFICES ASSUME NEW d \in Conn, Flies(d, t), call[d].by = "split", call[d].state = "clicked",
                        call[d].from \notin layout[t]
                 PROVE  /\ layout[t] = {}
                        /\ \A e \in entries' : call[d].from # Sess(e)
      BY <1>3 DEF CanSplit, Flies
    <3>1. /\ layout[t] = {} /\ pane[t] \subseteq {call[d].from}
          /\ pane[t] = {} => \A e \in entries : call[d].from # Sess(e)
      BY <2>1 DEF Calm, CanSplit
    <3>2. CASE pane[t] = {}
      BY <2>3, <3>1, <3>2
    <3>3. CASE pane[t] # {}
      <4>1. call[d].from = Sess(c)
        BY <2>1, <3>1, <3>3 DEF Held
      <4> QED
        BY <2>3, <3>1, <4>1, Leaves
    <3> QED
      BY <3>2, <3>3
  <2>5. CanRevert(t)'
    <3> SUFFICES ASSUME NEW d \in Conn, Flies(d, t), call[d].by = "split", call[d].state # "clicked"
                 PROVE  /\ Pend(d) \in layout[t]
                        /\ \/ \E x, y \in layout[t] \ {Pend(d)} : x # y
                           \/ \A e \in entries' : Sess(e) \notin layout[t]
      BY <1>3 DEF CanRevert, Flies
    <3>1. /\ Pend(d) \in layout[t]
          /\ \/ \E x, y \in layout[t] \ {Pend(d)} : x # y
             \/ \A e \in entries : Sess(e) \in layout[t] => Sess(e) \in pane[t]
      BY <2>1 DEF Calm, CanRevert
    <3>2. ASSUME NEW e \in entries', Sess(e) \in layout[t], Sess(e) \in pane[t]
          PROVE  \E x, y \in layout[t] \ {Pend(d)} : x # y
      <4>1. Sess(c) \in layout[t] /\ Sess(c) # Sess(e) /\ Sess(c) # Pend(d) /\ Sess(e) # Pend(d)
        BY <2>1, <2>3, <3>1, <3>2, Leaves DEF Held
      <4> QED
        BY <3>2, <4>1
    <3> QED
      BY <2>3, <3>1, <3>2
  <2>6. Closes(t)'
    BY <1>3, <2>1, <2>3 DEF Calm, Closes, Home
  <2>7. NoneLost(t)'
    <3> SUFFICES ASSUME NEW d \in entries', Home(d, t)
                 PROVE  layout[t] # {} /\ Sess(d) \in layout[t]
      BY <1>3 DEF NoneLost, Home, Held
    <3>1. Sess(d) \in Held(t)
      BY <2>1, <2>3 DEF Calm, NoneLost
    <3>2. ASSUME layout[t] = {} PROVE FALSE
      <4>1. Sess(d) \in pane[t] /\ Sess(c) \in pane[t]
        BY <2>1, <3>1, <3>2 DEF Held
      <4>2. Sess(c) = Sess(d)
        BY <2>1, <4>1 DEF Calm, Shape
      <4> QED
        BY <2>3, <4>2, Leaves
    <3> QED
      BY <3>1, <3>2 DEF Held
  <2> QED
    BY <2>1, <2>2, <2>4, <2>5, <2>6, <2>7 DEF Calm
<1> QED
  BY <1>2, <1>4, <1>5, CalmElsewhere

(* closeTab starts on a tab with nothing else in flight, or it crowds.     *)
LEMMA CalmBegin ==
  ASSUME Before, NEW k \in Closer, NEW t \in Tab, BeginCloseTab(k, t),
         UNCHANGED <<entries, status, pane, layout, call>>, crowded \subseteq crowded',
         t \in Tab \ crowded' => /\ t \notin crowded
                                 /\ \A c \in Conn : ~Flies(c, t)
                                 /\ \A l \in Closer : l # k => closer[l].tab # t
  PROVE  AllCalm'
<1>1. /\ \A l \in Closer : l # k => closer'[l] = closer[l]
      /\ closer'[k].tab = t /\ closer'[k].mode = "tab" /\ closer'[k].todo = Held(t)
  BY DEF BeginCloseTab, Before, CloserTypes
<1>2. ASSUME NEW u \in Tab \ crowded, u # t PROVE Frame(u)
  BY <1>1, <1>2 DEF Frame, Exists
<1>3. ASSUME t \in Tab \ crowded' PROVE Calm(t)'
  <2>1. Calm(t)
    BY <1>3 DEF Before, AllCalm
  <2>2. /\ \A c \in Conn : ~Flies(c, t)'
        /\ \A l \in Closer : closer'[l].tab = t => l = k
    BY <1>1, <1>3 DEF Flies
  <2>3. Shape(t)' /\ NoneLost(t)'
    BY <2>1 DEF Calm, Shape, NoneLost, Flies, Home, Held
  <2>4. \A c \in entries' : Home(c, t)' => Sess(c) \in closer'[k].todo
    BY <1>1, <2>1 DEF Calm, NoneLost, Home
  <2> QED
    BY <1>1, <2>2, <2>3, <2>4, CalmUnderCloser
<1> QED
  BY <1>2, <1>3, CalmElsewhere

(* closePane too.                                                          *)
LEMMA CalmClosePane ==
  ASSUME Before, NEW k \in Closer, NEW t \in Tab, NEW leaf \in Leaf, ClosePane(k, t, leaf)
  PROVE  AllCalm'
<1>1. /\ UNCHANGED <<entries, status, pane, layout, call>>
      /\ crowded' = IF Busy(t) THEN crowded \cup {t} ELSE crowded
      /\ \A l \in Closer : l # k => closer'[l] = closer[l]
      /\ closer'[k].tab = t /\ closer'[k].mode = "pane" /\ closer'[k].snap = layout[t]
  BY DEF ClosePane, Crowds, backend, tabVars, Before, CloserTypes
<1>2. ASSUME NEW u \in Tab \ crowded, u # t PROVE Frame(u)
  BY <1>1, <1>2 DEF Frame, Exists
<1>3. ASSUME t \in Tab \ crowded' PROVE Calm(t)'
  <2>1. /\ Calm(t)
        /\ \A c \in Conn : ~Flies(c, t)
        /\ \A l \in Closer : closer[l].tab # t
    BY <1>1, <1>3 DEF Before, AllCalm, Busy, Flies
  <2>2. /\ \A c \in Conn : ~Flies(c, t)'
        /\ \A l \in Closer : closer'[l].tab = t => l = k
    BY <1>1, <2>1 DEF Flies
  <2>3. Shape(t)' /\ NoneLost(t)'
    BY <1>1, <2>1 DEF Calm, Shape, NoneLost, Flies, Home, Held
  <2> QED
    BY <1>1, <2>2, <2>3, CalmUnderCloser
<1> QED
  BY <1>1, <1>2, <1>3, CalmElsewhere

(* The end of closeTab or closePane leaves nothing in flight on its tab.   *)
LEMMA CalmEnds ==
  ASSUME Before, NEW k \in Closer, CloseTabEnds(k) \/ ClosePaneEnds(k)
  PROVE  AllCalm'
<1>1. PICK t \in Tab : t = closer[k].tab
  BY DEF Before, LeafInv, ClosersWork, CloseTabEnds, ClosePaneEnds, AllClosed
<1>2. /\ UNCHANGED <<entries, call, crowded>>
      /\ \A l \in Closer : l # k => closer'[l] = closer[l]
      /\ closer'[k].tab = None
      /\ closer[k].todo = {}
      /\ closer[k].mode \in {"tab", "pane"}
  BY DEF CloseTabEnds, ClosePaneEnds, AllClosed, IdleCloser, backend, Before, CloserTypes
<1>3. \A u \in Tab : u # t => /\ pane'[u] = pane[u] /\ layout'[u] = layout[u]
                              /\ status'[u] = status[u]
  BY <1>1, SetTabWrites DEF CloseTabEnds, ClosePaneEnds, tabVars, Before, ViewTypes
<1>4. ASSUME NEW u \in Tab \ crowded, u # t PROVE Frame(u)
  BY <1>2, <1>3, <1>4, NoneAssumption DEF Frame, Exists
<1>5. ASSUME t \in Tab \ crowded' PROVE Calm(t)'
  <2>1. Calm(t)
    BY <1>2, <1>5 DEF Before, AllCalm
  <2>2. /\ \A c \in Conn : ~Flies(c, t)
        /\ \A c \in Conn : ~Flies(c, t)'
        /\ \A l \in Closer : closer'[l].tab # t
    BY <1>1, <1>2, <2>1, NoneAssumption DEF Calm, Alone, Flies
  <2>3. \A c \in Conn : Pend(c) \notin layout[t]
    BY <2>1, <2>2 DEF Calm, Shape
  <2>4. Shape(t)' /\ NoneLost(t)'
    <3>1. CASE UNCHANGED tabVars
      BY <1>2, <2>1, <2>3, <3>1 DEF Calm, Shape, NoneLost, Home, Held, tabVars
    <3>2. CASE CloseTabEnds(k) /\ Exists(t)
      <4>1. status'[t] = "removed" /\ pane'[t] = {} /\ layout'[t] = {}
        BY <1>1, <3>2, SetTabWrites DEF CloseTabEnds, Before, ViewTypes
      <4>2. \A c \in entries : ~Home(c, t)
        BY <1>1, <1>2, <2>1, <3>2 DEF Calm, Closes, CloseTabEnds, AllClosed
      <4> QED
        BY <1>2, <4>1, <4>2 DEF Shape, NoneLost, Home
    <3>3. CASE ClosePaneEnds(k) /\ Exists(t)
      <4>1. PICK next : next = closer[k].snap \ closer[k].list
        OBVIOUS
      <4>2. /\ next # {} /\ closer[k].mode = "pane"
            /\ \/ /\ Collapsed(next) = {}
                  /\ status'[t] = "open" /\ pane'[t] = next /\ layout'[t] = {}
               \/ /\ Collapsed(next) # {}
                  /\ status'[t] = status[t] /\ pane'[t] = pane[t] /\ layout'[t] = next
        <5>1. next # {} /\ closer[k].mode = "pane"
          BY <3>3, <4>1 DEF ClosePaneEnds, AllClosed
        <5>2. CASE Collapsed(next) = {}
          <6>1. \E moved \in SUBSET SessionsIn(next) : SetTab(t, "open", next, {}, moved)
            BY <1>1, <3>3, <4>1, <5>2 DEF ClosePaneEnds
          <6> QED
            BY <5>1, <5>2, <6>1, SetTabWrites DEF Before, ViewTypes
        <5>3. CASE Collapsed(next) # {}
          <6>1. \E moved \in SUBSET SessionsIn(next) : SetTab(t, status[t], pane[t], next, moved)
            BY <1>1, <3>3, <4>1, <5>3 DEF ClosePaneEnds
          <6> QED
            BY <5>1, <5>3, <6>1, SetTabWrites DEF Before, ViewTypes
        <5> QED
          BY <5>2, <5>3
      <4>3. next \subseteq layout[t] /\ closer[k].snap = layout[t] /\ layout[t] # {}
        BY <1>1, <2>1, <4>1, <4>2 DEF Calm, Closes
      <4>4. \A c \in entries : Home(c, t) => Sess(c) \in next
        <5> TAKE c \in entries
        <5> HAVE Home(c, t)
        <5>1. c \in Conn /\ Sess(c) \in layout[t]
          BY <2>1, <4>3 DEF Calm, NoneLost, Held, Before, RegTypeOK
        <5>2. Sess(c) \notin closer[k].list
          BY <1>2, <5>1 DEF Before, LeafInv, ClosersWork
        <5> QED
          BY <4>1, <4>3, <5>1, <5>2
      <4>5. \A c \in Conn : Pend(c) \notin next
        BY <2>3, <4>3
      <4>6. CASE Collapsed(next) = {}
        <5>1. \A x, y \in next : x = y
          BY <4>6 DEF Collapsed
        <5> QED
          BY <1>2, <4>2, <4>4, <4>6, <5>1 DEF Shape, NoneLost, Home, Held
      <4>7. CASE Collapsed(next) # {}
        <5>1. \E x, y \in next : x # y
          BY <4>7 DEF Collapsed
        <5> QED
          BY <1>2, <2>1, <4>2, <4>4, <4>5, <4>7, <5>1 DEF Calm, Shape, NoneLost, Home, Held
      <4> QED
        BY <4>6, <4>7
    <3> QED
      BY <1>1, <3>1, <3>2, <3>3 DEF CloseTabEnds, ClosePaneEnds
  <2> QED
    BY <2>2, <2>4, CalmAtRest
<1> QED
  BY <1>2, <1>4, <1>5, CalmElsewhere

(* Between the two a leaf is done with once it is out of the map.          *)
LEMMA CalmCloses ==
  ASSUME Before, NEW k \in Closer,
         \/ \E leaf \in Leaf : CloseNext(k, leaf)
         \/ \E c \in Conn : CloseAnswered(k, c)
  PROVE  AllCalm'
<1>1. ASSUME NEW leaf \in Leaf, CloseNext(k, leaf) PROVE AllCalm'
  <2>1. /\ UNCHANGED <<status, pane, layout, call, crowded>>
        /\ entries' \subseteq entries
        /\ \A l \in Closer : l # k => closer'[l] = closer[l]
        /\ closer'[k].tab = closer[k].tab /\ closer'[k].mode = closer[k].mode
        /\ closer'[k].snap = closer[k].snap /\ closer'[k].todo = closer[k].todo \ {leaf}
    <3>1. UNCHANGED <<status, pane, layout, call, crowded>>
      BY <1>1 DEF CloseNext, tabVars
    <3>2. /\ closer \in [Closer -> CloserRecord]
          /\ closer[k] \in CloserRecord
      BY DEF Before, CloserTypes
    <3>3. CASE SessionsIn({leaf}) \cap entries # {}
      <4>1. PICK c \in SessionsIn({leaf}) :
              /\ TakeEntry(c)
              /\ closer' = [closer EXCEPT ![k] = [closer[k] EXCEPT !.todo = @ \ {leaf}, !.waits = {c}]]
        BY <1>1, <3>3 DEF CloseNext
      <4>2. entries' \subseteq entries
        BY <4>1 DEF TakeEntry
      <4> QED
        BY <3>1, <3>2, <4>1, <4>2 DEF CloserRecord
    <3>4. CASE SessionsIn({leaf}) \cap entries = {}
      <4>1. entries' = entries /\ closer' = [closer EXCEPT ![k].todo = @ \ {leaf}]
        BY <1>1, <3>4 DEF CloseNext, backend
      <4> QED
        BY <3>1, <3>2, <4>1 DEF CloserRecord
    <3> QED
      BY <3>3, <3>4
  <2>2. \A c \in entries' : Sess(c) # leaf
    <3> SUFFICES ASSUME NEW c \in entries', Sess(c) = leaf PROVE FALSE
      OBVIOUS
    <3>1. c \in Conn /\ c \in entries
      BY <2>1 DEF Before, RegTypeOK
    <3>2. SessionsIn({leaf}) = {c}
      BY <3>1, Leaves DEF SessionsIn
    <3>3. entries' = entries \ {c}
      BY <1>1, <3>1, <3>2 DEF CloseNext, TakeEntry
    <3> QED
      BY <3>3
  <2>3. \A u \in Tab : Frame(u)
    BY <2>1, <2>2 DEF Frame, Exists
  <2> QED
    BY <2>1, <2>3, CalmAll
<1>2. ASSUME NEW c \in Conn, CloseAnswered(k, c) PROVE AllCalm'
  <2>1. /\ UNCHANGED <<status, pane, layout, call, crowded, entries>>
        /\ \A l \in Closer : l # k => closer'[l] = closer[l]
        /\ closer'[k].tab = closer[k].tab /\ closer'[k].mode = closer[k].mode
        /\ closer'[k].snap = closer[k].snap /\ closer'[k].todo = closer[k].todo
    BY <1>2 DEF CloseAnswered, CloseReturns, KillShell, tabVars, Before, CloserTypes, CloserRecord
  <2>2. \A u \in Tab : Frame(u)
    BY <2>1 DEF Frame, Exists
  <2> QED
    BY <2>1, <2>2, CalmAll
<1> QED
  BY <1>1, <1>2

(* The other steps of a call: a click on nothing, a click that lapses, a   *)
(* listener that registers, the ends of sessions.                          *)
LEMMA CalmRest ==
  ASSUME Before, NEW c \in Conn,
         \/ ClickOpen(c) \/ ClickLapses(c) \/ ListenResolves(c)
         \/ SessionClosed(c) \/ SessionGivenUp(c) \/ BackendStep(c)
  PROVE  AllCalm'
<1>1. CASE ClickOpen(c) \/ ClickLapses(c)
  <2>1. /\ call[c].state \in {"unused", "clicked"}
        /\ UNCHANGED <<entries, status, pane, layout, closer, crowded>>
        /\ \A d \in Conn : d # c => call'[d] = call[d]
        /\ call'[c].tab = None
    BY <1>1 DEF ClickOpen, ClickLapses, Click, Crowds, NoCall, backend, tabVars, Before, CallTypes
  <2>2. ASSUME NEW u \in Tab \ crowded, Calm(u) PROVE Frame(u)
    <3>1. Pend(c) \notin layout[u]
      BY <2>1, <2>2 DEF Calm, Shape, Flies
    <3> QED
      BY <2>1, <2>2, <3>1, NoneAssumption DEF Frame, Exists
  <2> QED
    BY <2>1, <2>2, CalmAll
<1>2. CASE ListenResolves(c) \/ BackendStep(c)
  <2>1. UNCHANGED <<entries, status, pane, layout, call, closer, crowded>>
    BY <1>2 DEF ListenResolves, BackendStep, Unseen, StreamEnds, StopDriver, SftpBegins, SftpEnds,
                backend, tabVars
  <2>2. \A u \in Tab : Frame(u)
    BY <2>1 DEF Frame, Exists
  <2> QED
    BY <2>1, <2>2, CalmAll
<1>3. CASE SessionClosed(c) \/ SessionGivenUp(c)
  <2>1. /\ entries' = entries \ {c} /\ UNCHANGED <<call, closer>>
        /\ call[c].tab \in Tab
        /\ Hears(c) \/ Misses
    BY <1>3 DEF SessionClosed, SessionGivenUp, Announce, EmitFails, Before, LeafInv, CallsNameTabs
  <2>2. CASE Misses
    <3>1. \A u \in Tab : Frame(u)
      BY <2>1, <2>2 DEF Misses, Frame, Exists, tabVars
    <3> QED
      BY <2>2, <3>1, CalmAll DEF Misses
  <2> QED
    BY <2>1, <2>2, CalmHears
<1> QED
  BY <1>1, <1>2, <1>3

(* Every step keeps the tabs without overlap calm.                         *)
LEMMA CalmStep == TabsInv /\ [TabsNext]_vars => AllCalm'
<1> SUFFICES ASSUME TabsInv, [TabsNext]_vars PROVE AllCalm'
  OBVIOUS
<1>1. Before
  <2>1. TypeOK /\ TypeOK'
    BY TabsTypes DEF TabsInv
  <2>2. RegTypeOK' /\ CallTypes' /\ CloserTypes'
    BY <2>1 DEF TypeOK, CallTypes, CloserTypes
  <2> QED
    BY <2>1, <2>2, TypeParts DEF TabsInv, Before
<1>2. ASSUME NEW c \in Conn, CallStep(c) PROVE AllCalm'
  BY <1>1, <1>2, CalmRest, CalmStarts, CalmSplit, CalmOpens, CalmResolves, CalmRejects,
     CalmSplits, CalmReverts DEF CallStep
<1>3. ASSUME NEW t \in Tab, TabStep(t) PROVE AllCalm'
  <2>1. CASE RestoreClosedTab(t) \/ AutoStops(t)
    <3>1. /\ UNCHANGED <<entries, call, closer, crowded>>
          /\ \/ UNCHANGED <<status, pane, layout>>
             \/ /\ status[t] = "absent"
                /\ status' = [status EXCEPT ![t] = "closed"]
                /\ pane' = [pane EXCEPT ![t] = {}]
                /\ layout' = [layout EXCEPT ![t] = {}]
      BY <2>1, SetTabWrites DEF RestoreClosedTab, AutoStops, backend, tabVars
    <3>2. ASSUME NEW u \in Tab PROVE Frame(u)
      <4>1. status[u] = "absent" => pane[u] = {} /\ layout[u] = {}
        BY <1>1 DEF Before, LeafInv, HoldersExist, Exists
      <4> QED
        BY <1>1, <3>1, <4>1 DEF Frame, Exists, Before, ViewTypes
    <3> QED
      BY <1>1, <3>1, <3>2, CalmAll
  <2>2. ASSUME NEW k \in UserCloser, CloseTab(k, t) PROVE AllCalm'
    <3>1. /\ k \in Closer
          /\ UNCHANGED <<entries, status, pane, layout, call>>
          /\ crowded' = IF Busy(t) THEN crowded \cup {t} ELSE crowded
          /\ BeginCloseTab(k, t)
      BY <2>2, CloserAssumption DEF CloseTab, Crowds, backend, tabVars
    <3>2. t \in Tab \ crowded' => /\ t \notin crowded
                                  /\ \A c \in Conn : ~Flies(c, t)
                                  /\ \A l \in Closer : l # k => closer[l].tab # t
      BY <3>1 DEF Busy, Flies
    <3> QED
      BY <1>1, <3>1, <3>2, CalmBegin
  <2>3. ASSUME NEW k \in UserCloser, NEW leaf \in Leaf, ClosePane(k, t, leaf) PROVE AllCalm'
    BY <1>1, <2>3, CalmClosePane, CloserAssumption
  <2>4. ASSUME NEW c \in Conn, OpenTab(c, t) \/ AutoFires(t, c) PROVE AllCalm'
    BY <1>1, <2>4, CalmStarts
  <2>5. ASSUME NEW c \in Conn, ClickReconnect(c, t) \/ \E c2 \in Conn : ClickSplit(c, t, c2)
        PROVE  AllCalm'
    BY <1>1, <2>5, CalmClick
  <2> QED
    BY <1>3, <2>1, <2>2, <2>3, <2>4, <2>5 DEF TabStep
<1>4. ASSUME NEW k \in Closer, CloserStep(k) PROVE AllCalm'
  <2>1. CASE ClosePaneClosesTab(k)
    <3>1. PICK t \in Tab : t = closer[k].tab
      BY <1>1, <2>1 DEF Before, LeafInv, ClosersWork, ClosePaneClosesTab, AllClosed
    <3>2. BeginCloseTab(k, t) /\ UNCHANGED <<entries, status, pane, layout, call, crowded>>
      BY <2>1, <3>1 DEF ClosePaneClosesTab, backend, tabVars
    <3>3. t \in Tab \ crowded' => /\ t \notin crowded
                                  /\ \A c \in Conn : ~Flies(c, t)
                                  /\ \A l \in Closer : l # k => closer[l].tab # t
      BY <1>1, <3>1, <3>2 DEF Before, AllCalm, Calm, Alone
    <3> QED
      BY <1>1, <3>2, <3>3, CalmBegin
  <2> QED
    BY <1>1, <1>4, <2>1, CalmCloses, CalmEnds DEF CloserStep
<1>5. CASE UNCHANGED vars
  <2>1. UNCHANGED <<entries, status, pane, layout, call, closer, crowded>>
    BY <1>5 DEF vars, backend, tabVars
  <2>2. \A u \in Tab : Frame(u)
    BY <2>1 DEF Frame, Exists
  <2> QED
    BY <1>1, <2>1, <2>2, CalmAll
<1> QED
  BY <1>2, <1>3, <1>4, <1>5 DEF TabsNext

(* Every step keeps the invariant.                                         *)
LEMMA TabsStep == TabsInv /\ [TabsNext]_vars => TabsInv'
BY TabsTypes, LeafStep, CalmStep DEF TabsInv

(* The invariant holds in every reachable state.                           *)
LEMMA TabsInvariant == Spec => []TabsInv
BY TabsInit, TabsStep, PTL DEF Spec

(* Type correctness of the whole front and backend.                        *)
THEOREM TabsTypesHold == Spec => []TypeOK
<1>1. TabsInv => TypeOK
  BY DEF TabsInv
<1> QED
  BY <1>1, TabsInvariant, PTL

(* A session the backend keeps is where closeTab finds it, as long as      *)
(* nothing overlapped on its tab.                                          *)
THEOREM OrphansAlwaysOverlapped == Spec => []OrphansNeedOverlap
<1>1. TabsInv => OrphansNeedOverlap
  BY DEF TabsInv, LeafInv, CallsNameTabs, AllCalm, Calm, NoneLost, Home, OrphansNeedOverlap, TypeOK, RegTypeOK
<1> QED
  BY <1>1, TabsInvariant, PTL

(* What SessionRegistry promises holds whatever the front does: no driver  *)
(* runs unreachable under any interleaving of the store functions.         *)
THEOREM TabsKeepDriversReachable == Spec => []NoUnreachableDriver
BY TabsImplementRegistry, DriversReachable, PTL
===========================================================================
