--------------------------- MODULE VaultLockProofs ---------------------------
(***************************************************************************)
(* Theorems about VaultLock for every set of tabs, sessions, forwards and  *)
(* lock() calls: it uses the backend and the forwards as they are, so that *)
(* what is proved about them holds under the lock, its types, and that the *)
(* lock screen covers the tabs and the forwards its lock() call had found. *)
(***************************************************************************)
EXTENDS VaultLock, SessionTabsProofs

(* l's closeTab call is at work on t. *)
Closing(l, t) == closer[l].mode # "idle" /\ closer[l].tab = t

(* A lock() call goes through the tabs it has read one by one; what it is  *)
(* done with is gone, and stays so because ids are not used again.         *)
LockCloses ==
  \A l \in LockCall :
    /\ locks[l].queue \subseteq locks[l].tabs
    /\ \A t \in locks[l].tabs : status[t] # "absent"
    /\ \A t \in locks[l].tabs \ locks[l].queue : status[t] = "removed" \/ Closing(l, t)
    /\ closer[l].mode # "pane"
    /\ locks[l].state # "closing" => locks[l].queue = {} /\ closer[l].mode = "idle"

(* A worker that has been put in the registry does not start again. *)
Started(w) == starts[w] \notin {"unused", "connecting", "bound"}
Disconnected(w) == \/ session[w] = "closed"
                   \/ signal[w] = "dropped"
                   \/ \E k \in Stopper : w \in stopper[k].todo

(* The workers it has found are in the registry until stop_all, or somebody *)
(* before it, takes them out.                                               *)
LockStopsAll ==
  \A l \in LockCall : \A w \in locks[l].workers :
    /\ Started(w)
    /\ Disconnected(w) \/ (w \in held /\ locks[l].state = "closing")

CoveredIsGone == /\ \A t \in covered.tabs : status[t] = "removed"
                 /\ \A w \in covered.workers : Started(w) /\ Disconnected(w)

LockRecords ==
  /\ locks \in [LockCall -> [state : {"idle", "closing", "stopping"}, tabs : SUBSET Tab,
                             queue : SUBSET Tab, workers : SUBSET Start]]
  /\ covered \in [state : {"idle", "stopping"}, tabs : SUBSET Tab,
                  queue : SUBSET Tab, workers : SUBSET Start]

(* The inductive invariant. *)
LockInv == /\ TabsInv
           /\ FwdInv
           /\ LockRecords
           /\ LockCloses
           /\ LockStopsAll
           /\ CoveredIsGone

---------------------------------------------------------------------------
(* What the steps of the tabs do to what a lock() call relies on.          *)

(* A tab that came stays known, and one that went stays away. *)
TabsGoOneWay ==
  \A t \in Tab : /\ status[t] = "removed" => status'[t] = "removed"
                 /\ status[t] # "absent" => status'[t] # "absent"

(* Writing the status of a tab that exists is such a step.                 *)
LEMMA ExistingTabWrites ==
  ASSUME ViewTypes, NEW t \in Tab, Exists(t), NEW st, st # "absent",
         status' = [status EXCEPT ![t] = st]
  PROVE  TabsGoOneWay
BY DEF ViewTypes, TabsGoOneWay, Exists

(* Every function of the store keeps to it. *)
LEMMA TabsOneWay == TabsInv /\ [TabsNext]_vars => TabsGoOneWay
<1> SUFFICES ASSUME TabsInv, [TabsNext]_vars PROVE TabsGoOneWay
  OBVIOUS
<1>a. ViewTypes /\ CallsNameTabs
  BY TypeParts DEF TabsInv, LeafInv
<1>b. ASSUME NEW t \in Tab, Exists(t) PROVE status[t] # "absent"
  BY <1>b DEF Exists
<1>1. CASE UNCHANGED status
  BY <1>1 DEF TabsGoOneWay
<1>2. ASSUME NEW c \in Conn, CallStep(c) PROVE TabsGoOneWay
  <2> DEFINE t == call[c].tab
  <2>1. CASE Reconnect(c)
    <3>1. t \in Tab /\ Exists(t) /\ status' = [status EXCEPT ![t] = "connecting"]
      BY <1>a, <2>1, SetTabWrites DEF Reconnect, StartReconnect, CallsNameTabs
    <3> QED
      BY <1>a, <3>1, ExistingTabWrites
  <2>2. CASE SplitPane(c)
    <3>1. t \in Tab /\ Exists(t)
      BY <1>a, <2>2 DEF SplitPane, CallsNameTabs
    <3>2. status' = [status EXCEPT ![t] = status[t]]
      BY <2>2, SetTabWrites DEF SplitPane
    <3> HIDE DEF t
    <3> QED
      BY <1>a, <1>b, <3>1, <3>2, ExistingTabWrites
  <2>t. call[c].state \in {"sent", "opened", "settled"} => t \in Tab
    BY <1>a DEF CallsNameTabs
  <2>3. CASE TabCallResolves(c)
    <3>1. t \in Tab
      BY <2>t, <2>3 DEF TabCallResolves
    <3>2. CASE Exists(t) /\ ~UNCHANGED status
      <4>1. \E st : st # "absent" /\ status' = [status EXCEPT ![t] = st]
        BY <2>3, <3>2, SetTabWrites DEF TabCallResolves, tabVars
      <4> QED
        BY <1>a, <3>1, <3>2, <4>1, ExistingTabWrites
    <3>3. CASE ~Exists(t)
      BY <1>1, <2>3, <3>3 DEF TabCallResolves, tabVars
    <3> QED
      BY <1>1, <3>2, <3>3
  <2>4. CASE TabCallRejects(c)
    <3>1. t \in Tab
      BY <2>t, <2>4 DEF TabCallRejects
    <3>2. CASE Exists(t) /\ ~UNCHANGED status
      <4>1. \E st : st # "absent" /\ status' = [status EXCEPT ![t] = st]
        BY <2>4, <3>2, SetTabWrites DEF TabCallRejects, SetClosed, tabVars
      <4> QED
        BY <1>a, <3>1, <3>2, <4>1, ExistingTabWrites
    <3>3. CASE ~Exists(t)
      BY <1>1, <2>4, <3>3 DEF TabCallRejects, tabVars
    <3> QED
      BY <1>1, <3>2, <3>3
  <2>5. CASE SplitResolves(c)
    <3>1. t \in Tab
      BY <2>t, <2>5 DEF SplitResolves
    <3>2. CASE Exists(t) /\ ~UNCHANGED status
      <4>1. \E st : st # "absent" /\ status' = [status EXCEPT ![t] = st]
        BY <2>5, <1>b, <3>1, <3>2, SetTabWrites DEF SplitResolves, tabVars
      <4> QED
        BY <1>a, <3>1, <3>2, <4>1, ExistingTabWrites
    <3>3. CASE ~Exists(t)
      BY <1>1, <2>5, <3>3 DEF SplitResolves, tabVars
    <3> QED
      BY <1>1, <3>2, <3>3
  <2>6. CASE SplitRejects(c)
    <3>1. t \in Tab
      BY <2>t, <2>6 DEF SplitRejects
    <3>2. CASE Exists(t) /\ ~UNCHANGED status
      <4>1. \E st : st # "absent" /\ status' = [status EXCEPT ![t] = st]
        BY <2>6, <1>b, <3>1, <3>2, SetTabWrites DEF SplitRejects, tabVars
      <4> QED
        BY <1>a, <3>1, <3>2, <4>1, ExistingTabWrites
    <3>3. CASE ~Exists(t)
      BY <1>1, <2>6, <3>3 DEF SplitRejects, tabVars
    <3> QED
      BY <1>1, <3>2, <3>3
  <2>7. CASE SessionClosed(c) \/ SessionGivenUp(c)
    <3>1. t \in Tab /\ (Hears(c) \/ Misses)
      BY <2>t, <2>7 DEF SessionClosed, SessionGivenUp
    <3>2. CASE Hears(c)
      <4>1. Exists(t) /\ status' = [status EXCEPT ![t] = "closed"]
        BY <3>2, SetTabWrites DEF Hears, SetClosed
      <4> QED
        BY <1>a, <3>1, <4>1, ExistingTabWrites
    <3>3. CASE Misses
      BY <1>1, <3>3 DEF Misses, tabVars
    <3> QED
      BY <3>1, <3>2, <3>3
  <2>8. CASE UNCHANGED status
    BY <1>1, <2>8
  <2> QED
    BY <1>2, <2>1, <2>2, <2>3, <2>4, <2>5, <2>6, <2>7, <2>8
       DEF CallStep, ClickOpen, Click, ClickLapses, BackendOpens, ListenResolves, BackendStep,
           Unseen, tabVars
<1>3. ASSUME NEW t \in Tab, TabStep(t) PROVE TabsGoOneWay
  <2>1. ASSUME NEW c \in Conn, OpenTab(c, t) PROVE TabsGoOneWay
    BY <1>a, <2>1, SetTabWrites DEF OpenTab, ViewTypes, TabsGoOneWay
  <2>2. CASE RestoreClosedTab(t)
    BY <1>a, <2>2, SetTabWrites DEF RestoreClosedTab, ViewTypes, TabsGoOneWay
  <2>3. ASSUME NEW c \in Conn, AutoFires(t, c) PROVE TabsGoOneWay
    BY <1>a, <2>3, SetTabWrites, ExistingTabWrites DEF AutoFires, StartReconnect, Exists
  <2>4. CASE UNCHANGED status
    BY <1>1, <2>4
  <2> QED
    BY <1>3, <2>1, <2>2, <2>3, <2>4
       DEF TabStep, AutoStops, ClickReconnect, ClickSplit, Click, CloseTab, ClosePane, tabVars
<1>4. ASSUME NEW k \in Closer, CloserStep(k) PROVE TabsGoOneWay
  <2> DEFINE t == closer[k].tab
  <2>1. closer[k].mode # "idle" => t \in Tab
    BY DEF TabsInv, LeafInv, ClosersWork
  <2>2. CASE CloseTabEnds(k)
    <3>1. t \in Tab
      BY <2>1, <2>2 DEF CloseTabEnds, AllClosed
    <3>2. CASE Exists(t)
      <4>1. SetTab(t, "removed", {}, {}, {})
        BY <2>2, <3>2 DEF CloseTabEnds
      <4>2. status' = [status EXCEPT ![t] = "removed"]
        BY <4>1, SetTabWrites
      <4> QED
        BY <1>a, <3>1, <3>2, <4>2, ExistingTabWrites
    <3>3. CASE ~Exists(t)
      BY <1>1, <2>2, <3>3 DEF CloseTabEnds, tabVars
    <3> QED
      BY <3>2, <3>3
  <2>3. CASE ClosePaneEnds(k)
    <3>1. t \in Tab
      BY <2>1, <2>3 DEF ClosePaneEnds, AllClosed
    <3>2. CASE Exists(t)
      <4>1. PICK st : st # "absent" /\ status' = [status EXCEPT ![t] = st]
        BY <1>b, <2>3, <3>1, <3>2, SetTabWrites DEF ClosePaneEnds
      <4> QED
        BY <1>a, <3>1, <3>2, <4>1, ExistingTabWrites
    <3>3. CASE ~Exists(t)
      BY <1>1, <2>3, <3>3 DEF ClosePaneEnds, tabVars
    <3> QED
      BY <3>2, <3>3
  <2>4. CASE UNCHANGED status
    BY <1>1, <2>4
  <2> QED
    BY <1>4, <2>2, <2>3, <2>4 DEF CloserStep, CloseNext, CloseAnswered, ClosePaneClosesTab, tabVars
<1>5. CASE UNCHANGED vars
  BY <1>1, <1>5 DEF vars, tabVars
<1> QED
  BY <1>2, <1>3, <1>4, <1>5 DEF TabsNext

(* A closeTab call that no click has started goes on with its tab until the *)
(* tab is gone.                                                             *)
LEMMA ClosersGoOn ==
  ASSUME TabsInv, [TabsNext]_vars, NEW k \in Closer \ UserCloser, closer[k].mode # "pane"
  PROVE  \/ closer'[k].mode = closer[k].mode /\ closer'[k].tab = closer[k].tab
         \/ /\ closer'[k].mode = "idle"
            /\ \A t \in Tab : Closing(k, t) /\ status[t] # "absent" => status'[t] = "removed"
<1>a. ViewTypes /\ closer \in [Closer -> CloserRecord]
  BY TypeParts DEF TabsInv, CloserTypes
<1>1. CASE UNCHANGED closer
  BY <1>1
<1>2. ASSUME NEW t \in Tab, TabStep(t) PROVE closer'[k] = closer[k]
  <2>1. ASSUME NEW j \in UserCloser, CloseTab(j, t) PROVE closer'[k] = closer[k]
    BY <1>a, <2>1 DEF CloseTab, BeginCloseTab
  <2>2. ASSUME NEW j \in UserCloser, NEW leaf \in Leaf, ClosePane(j, t, leaf)
        PROVE  closer'[k] = closer[k]
    BY <1>a, <2>2 DEF ClosePane
  <2>3. CASE UNCHANGED closer
    BY <2>3
  <2> QED
    BY <1>2, <2>1, <2>2, <2>3
       DEF TabStep, RestoreClosedTab, AutoStops, ClickReconnect, ClickSplit, Click, OpenTab, AutoFires
<1>3. ASSUME NEW j \in Closer, j # k, CloserStep(j) PROVE closer'[k] = closer[k]
  <2>1. ASSUME NEW leaf \in Leaf, CloseNext(j, leaf) PROVE closer'[k] = closer[k]
    BY <1>a, <1>3, <2>1 DEF CloseNext
  <2>2. ASSUME NEW c \in Conn, CloseAnswered(j, c) PROVE closer'[k] = closer[k]
    BY <1>a, <1>3, <2>2 DEF CloseAnswered
  <2> QED
    BY <1>a, <1>3, <2>1, <2>2
       DEF CloserStep, CloseTabEnds, ClosePaneClosesTab, BeginCloseTab, ClosePaneEnds
<1>4. CASE CloserStep(k)
  <2>1. ASSUME NEW leaf \in Leaf, CloseNext(k, leaf)
        PROVE  closer'[k].mode = closer[k].mode /\ closer'[k].tab = closer[k].tab
    BY <1>a, <2>1 DEF CloseNext, CloserRecord
  <2>2. ASSUME NEW c \in Conn, CloseAnswered(k, c)
        PROVE  closer'[k].mode = closer[k].mode /\ closer'[k].tab = closer[k].tab
    BY <1>a, <2>2 DEF CloseAnswered, CloserRecord
  <2>3. CASE CloseTabEnds(k)
    <3>1. closer'[k].mode = "idle"
      BY <1>a, <2>3 DEF CloseTabEnds, IdleCloser
    <3>2. ASSUME NEW t \in Tab, Closing(k, t), status[t] # "absent" PROVE status'[t] = "removed"
      <4>1. CASE Exists(t)
        BY <1>a, <2>3, <3>2, <4>1, SetTabWrites DEF CloseTabEnds, Closing, ViewTypes
      <4>2. CASE ~Exists(t)
        BY <1>a, <2>3, <3>2, <4>2 DEF CloseTabEnds, Closing, ViewTypes, Status, Exists, tabVars
      <4> QED
        BY <4>1, <4>2
    <3> QED
      BY <3>1, <3>2
  <2> QED
    BY <1>4, <2>1, <2>2, <2>3 DEF CloserStep, ClosePaneClosesTab, ClosePaneEnds, AllClosed
<1>5. ASSUME NEW c \in Conn, CallStep(c) PROVE UNCHANGED closer
  BY <1>5
     DEF CallStep, ClickOpen, Click, ClickLapses, Reconnect, SplitPane, BackendOpens,
         TabCallResolves, TabCallRejects, SplitResolves, SplitRejects, ListenResolves,
         SessionClosed, SessionGivenUp, BackendStep, Unseen
<1> QED
  BY <1>1, <1>2, <1>3, <1>4, <1>5 DEF TabsNext, vars

---------------------------------------------------------------------------
(* What the steps of the forwards do to a worker lock() has found.         *)
LEMMA WorkersGoOn ==
  ASSUME FwdInv, [FwdNext]_fwdVars, NEW w \in Start, Started(w)
  PROVE  /\ Started(w)'
         /\ Disconnected(w) => Disconnected(w)'
         /\ w \in held => w \in held' \/ Disconnected(w)'
<1> DEFINE Goal == /\ Started(w)'
                   /\ Disconnected(w) => Disconnected(w)'
                   /\ w \in held => w \in held' \/ Disconnected(w)'
<1> USE DEF FwdInv, FwdTypeOK, Started, Disconnected
<1>1. ASSUME NEW v \in Start, StartForward(v) \/ StartFails(v) PROVE Goal
  BY <1>1 DEF StartForward, StartFails
<1>2. ASSUME NEW v \in Start, StartBinds(v) PROVE Goal
  BY <1>2 DEF StartBinds
<1>3. ASSUME NEW v \in Start, StartInserts(v) PROVE Goal
  BY <1>3 DEF StartInserts
<1>4. ASSUME NEW v \in Start, StartAnswered(v) PROVE Goal
  BY <1>4 DEF StartAnswered
<1>5. ASSUME NEW k \in Stopper, NEW mode, NEW of, TakeHandles(k, mode, of) PROVE Goal
  <2>1. /\ UNCHANGED <<starts, session, signal>>
        /\ stopper[k].mode = "idle"
        /\ held' = held \ {v \in held : RowOf[v] \in of}
        /\ \A j \in Stopper : j # k => stopper'[j] = stopper[j]
        /\ stopper'[k].todo = {v \in held : RowOf[v] \in of}
    BY <1>5 DEF TakeHandles
  <2>2. stopper[k].todo = {}
    BY <2>1 DEF IdleStoppersDone
  <2> QED
    BY <2>1, <2>2
<1>6. ASSUME NEW k \in Stopper, NEW v \in Start, StopNext(k, v) PROVE Goal
  <2>1. /\ UNCHANGED <<starts, held>>
        /\ session' = [session EXCEPT ![v] = "closed"]
        /\ signal' = [signal EXCEPT ![v] = "stop"]
        /\ stopper' = [stopper EXCEPT ![k].todo = @ \ {v}]
    BY <1>6 DEF StopNext
  <2>2. CASE v = w
    BY <2>1, <2>2
  <2>3. CASE v # w
    BY <2>1, <2>3
  <2> QED
    BY <2>2, <2>3
<1>7. ASSUME NEW k \in Stopper, RowDeleted(k) PROVE Goal
  BY <1>7 DEF RowDeleted
<1>8. ASSUME NEW k \in Stopper, StopAnswered(k) PROVE Goal
  BY <1>8 DEF StopAnswered, IdleStopper
<1>9. CASE UNCHANGED <<starts, held, session, signal, stopper>>
  BY <1>9
<1>10. ASSUME NEW v \in Start, SessionDies(v) PROVE Goal
  BY <1>10 DEF SessionDies
<1> HIDE DEF FwdInv, FwdTypeOK, Started, Disconnected
<1> QED
  BY <1>1, <1>2, <1>3, <1>4, <1>5, <1>6, <1>7, <1>8, <1>9, <1>10, UserStopperAssumption
     DEF FwdNext, FwdClick, FwdWork, StartStep, StopperStep, HostDeleted, ListActive,
         ListApplied, ListenerEnds, AcceptFails, StopAll, StopForward, DeleteForward, fwdVars

(* What is in the registry has been started. *)
LEMMA HeldIsStarted == FwdInv => \A w \in held : w \in Start /\ Started(w)
BY DEF FwdInv, FwdTypeOK, StartsInOrder, Started

---------------------------------------------------------------------------
(* The lock uses the other components by their own steps. *)
LEMMA LockUsesForwards == [LockNextState]_allVars => [FwdNext]_fwdVars
<1> SUFFICES ASSUME [LockNextState]_allVars PROVE [FwdNext]_fwdVars
  OBVIOUS
<1>1. CASE FwdWork
  BY <1>1 DEF FwdNext
<1>2. CASE FwdClick
  BY <1>2 DEF FwdNext
<1>3. ASSUME NEW l \in LockCall, LockStops(l) PROVE FwdNext
  BY <1>3, LockCallAssumption DEF LockStops, FwdNext
<1>4. CASE UNCHANGED fwdVars
  BY <1>4
<1> QED
  BY <1>1, <1>2, <1>3, <1>4
     DEF LockNextState, LockStart, LockStep, LockNext, LockEnds, Unlock, allVars

(* The same for the backend of the sessions. *)
LEMMA LockUsesRegistry == [LockNextState]_allVars => [RegNext]_backend
<1> SUFFICES ASSUME [LockNextState]_allVars PROVE [RegNext]_backend
  OBVIOUS
<1>1. CASE [TabsNext]_vars
  BY <1>1, TabsUseRegistry
<1>2. CASE UNCHANGED backend
  BY <1>2
<1> QED
  BY <1>1, <1>2
     DEF LockNextState, LockStart, LockStep, LockNext, LockStops, LockEnds, Unlock, allVars, vars

(* Forwards under the lock are forwards: what BackendProofs proves holds. *)
THEOREM LockImplementsForwards == LockSpec => FwdSpec
<1>1. LockInit => FwdInit
  BY DEF LockInit
<1> QED
  BY <1>1, LockUsesForwards, PTL DEF LockSpec, FwdSpec

(* Sessions under the lock are sessions of the backend: no driver is lost, *)
(* close calls wait for what they stop.                                    *)
THEOREM LockImplementsRegistry == LockSpec => RegSpec
<1>1. LockInit => RegInit
  BY DEF LockInit, Init
<1> QED
  BY <1>1, LockUsesRegistry, PTL DEF LockSpec, RegSpec

(* A step of the lock is one of the tabs, a lock() call that takes the next *)
(* tab, the screen that comes or goes, or none of their business.           *)
LEMMA LockStepOnTabs ==
  ASSUME [LockNextState]_allVars
  PROVE  \/ [TabsNext]_vars
         \/ \E l \in LockCall, t \in Tab : LockNext(l, t)
         \/ /\ locked' \in BOOLEAN
            /\ UNCHANGED <<backend, tabVars, viewVars, call, auto, closer, crowded>>
BY DEF LockNextState, LockStart, LockStep, LockStops, LockEnds, Unlock, allVars

(* What says nothing of the close calls in flight only depends on the tabs, the *)
(* open calls and the backend's map.                                           *)
LEMMA RestOfLeafInv ==
  ASSUME CallsNameTabs, EntriesOpened, HoldersExist, TabLeaves, FromLeaves, SplitsHaveFrom,
         UNCHANGED <<entries, status, pane, layout, call>>
  PROVE  /\ CallsNameTabs' /\ EntriesOpened' /\ HoldersExist' /\ TabLeaves' /\ FromLeaves'
         /\ SplitsHaveFrom'
<1>1. CallsNameTabs' /\ EntriesOpened' /\ SplitsHaveFrom'
  BY DEF CallsNameTabs, EntriesOpened, SplitsHaveFrom
<1>2. HoldersExist'
  BY DEF HoldersExist, Exists
<1>3. TabLeaves' /\ FromLeaves'
  BY DEF TabLeaves, FromLeaves, Home
<1> QED
  BY <1>1, <1>2, <1>3

(* It keeps the invariant of the tabs. *)
LEMMA LockKeepsTabs == TabsInv /\ [LockNextState]_allVars => TabsInv'
<1> SUFFICES ASSUME TabsInv, [LockNextState]_allVars PROVE TabsInv'
  OBVIOUS
<1>a. /\ RegTypeOK /\ ViewTypes /\ CallTypes /\ AutoTypes
      /\ CloserTypes /\ LockTypes /\ HistoryTypes
      /\ CallsNameTabs /\ EntriesOpened /\ HoldersExist /\ TabLeaves /\ FromLeaves
      /\ CloserLeaves /\ SplitsHaveFrom /\ ClosersWork
  BY TypeParts DEF TabsInv, LeafInv
<1>1. CASE [TabsNext]_vars
  BY <1>1, TabsStep
<1>2. ASSUME NEW l \in LockCall, NEW t \in Tab, LockNext(l, t) PROVE TabsInv'
  <2>1. /\ l \in Closer /\ BeginCloseTab(l, t) /\ closer[l].mode = "idle"
        /\ UNCHANGED <<backend, tabVars, viewVars, call, auto, locked>>
        /\ Crowds(t, Busy(t))
    BY <1>2, LockCallAssumption DEF LockNext
  <2>2. CloserTypes'
    BY <1>a, <2>1, BeginTypes
  <2>3. RegTypeOK'
    BY <1>a, <2>1, RegistryTypesStep
  <2>4. TypeOK'
    <3>1. /\ RegTypeOK' /\ ViewTypes' /\ CallTypes' /\ AutoTypes'
          /\ CloserTypes' /\ LockTypes' /\ HistoryTypes'
      BY <1>a, <2>1, <2>2, <2>3, ViewsUnchanged, RestUnchanged, CrowdsTypes
    <3> QED
      BY <3>1, TypeParts, PTL
  <2>5. LeafInv'
    <3>1. UNCHANGED <<entries, status, pane, layout, call>>
      BY <2>1 DEF backend, tabVars
    <3>2. /\ CallsNameTabs' /\ EntriesOpened' /\ HoldersExist' /\ TabLeaves' /\ FromLeaves'
          /\ SplitsHaveFrom'
      BY <1>a, <3>1, RestOfLeafInv
    <3>3. \A k \in Closer : k # l => closer'[k] = closer[k]
      BY <1>a, <2>1 DEF BeginCloseTab, CloserTypes
    <3>4. closer'[l] = [mode |-> "tab", tab |-> t, list |-> Held(t), todo |-> Held(t),
                        waits |-> {}, snap |-> {}]
      BY <1>a, <2>1 DEF BeginCloseTab, CloserTypes
    <3>5. \A c \in Conn : Sess(c) \in Held(t) => Home(c, t)
      BY <1>a DEF TabLeaves, Held
    <3>6. CloserLeaves'
      BY <1>a, <3>1, <3>3, <3>4, <3>5 DEF CloserLeaves, Home
    <3>7. ClosersWork'
      BY <1>a, <3>1, <3>3, <3>4 DEF ClosersWork
    <3> QED
      BY <3>2, <3>6, <3>7 DEF LeafInv
  <2>6. AllCalm'
    <3>1. Before
      BY <1>a, <2>2, <2>3, <2>4 DEF Before, TabsInv, TypeOK, CallTypes
    <3>2. /\ UNCHANGED <<entries, status, pane, layout, call>>
          /\ crowded' = IF Busy(t) THEN crowded \cup {t} ELSE crowded
      BY <2>1 DEF backend, tabVars, Crowds
    <3>3. t \in Tab \ crowded' => /\ t \notin crowded
                                  /\ \A c \in Conn : ~Flies(c, t)
                                  /\ \A k \in Closer : k # l => closer[k].tab # t
      BY <3>2 DEF Busy, Flies
    <3> QED
      BY <2>1, <3>1, <3>2, <3>3, CalmBegin
  <2> QED
    BY <2>4, <2>5, <2>6 DEF TabsInv
<1>3. ASSUME locked' \in BOOLEAN,
             UNCHANGED <<backend, tabVars, viewVars, call, auto, closer, crowded>>
      PROVE  TabsInv'
  <2>1. RegTypeOK' /\ LockTypes'
    BY <1>a, <1>3, RegistryTypesStep DEF LockTypes
  <2>2. TypeOK'
    <3>1. /\ RegTypeOK' /\ ViewTypes' /\ CallTypes' /\ AutoTypes'
          /\ CloserTypes' /\ LockTypes' /\ HistoryTypes'
      BY <1>a, <1>3, <2>1, ViewsUnchanged, RestUnchanged
    <3> QED
      BY <3>1, TypeParts, PTL
  <2>3. LeafInv'
    <3>1. UNCHANGED <<entries, status, pane, layout, call, closer>>
      BY <1>3 DEF backend, tabVars
    <3>2. /\ CallsNameTabs' /\ EntriesOpened' /\ HoldersExist' /\ TabLeaves' /\ FromLeaves'
          /\ SplitsHaveFrom'
      BY <1>a, <3>1, RestOfLeafInv
    <3>3. CloserLeaves' /\ ClosersWork'
      BY <1>a, <3>1 DEF CloserLeaves, ClosersWork, Home
    <3> QED
      BY <3>2, <3>3 DEF LeafInv
  <2>4. AllCalm'
    <3>1. Before
      BY <1>a, <2>2 DEF Before, TabsInv, TypeOK, CallTypes, CloserTypes
    <3>2. UNCHANGED <<entries, status, pane, layout, call, closer, crowded>>
      BY <1>3 DEF backend, tabVars
    <3>3. \A u \in Tab : Frame(u)
      BY <3>2 DEF Frame, Exists
    <3> QED
      BY <3>1, <3>2, <3>3, CalmAll
  <2> QED
    BY <2>2, <2>3, <2>4 DEF TabsInv
<1> QED
  BY <1>1, <1>2, <1>3, LockStepOnTabs

---------------------------------------------------------------------------
(* The lock's own part of the invariant: its calls and what they cover. *)
OwnInv == LockRecords /\ LockCloses /\ LockStopsAll /\ CoveredIsGone

(* At first no lock() call has been made. *)
LEMMA LockInvInit == LockInit => LockInv
<1> SUFFICES ASSUME LockInit PROVE LockInv
  OBVIOUS
<1>1. TabsInv /\ FwdInv
  BY TabsInit, ForwardsInit DEF LockInit
<1>2. LockRecords /\ LockStopsAll /\ CoveredIsGone
  BY DEF LockInit, IdleLock, LockRecords, LockStopsAll, CoveredIsGone
<1>3. \A l \in LockCall : closer[l].mode = "idle"
  BY LockCallAssumption DEF LockInit, Init, IdleCloser
<1>4. LockCloses
  BY <1>3 DEF LockInit, IdleLock, LockCloses
<1> QED
  BY <1>1, <1>2, <1>4 DEF LockInv

(* Steps that are none of the lock's: the tabs and the forwards go on. *)
LEMMA OthersKeepLock ==
  ASSUME LockInv, UNCHANGED lockVars, [TabsNext]_vars, [FwdNext]_fwdVars
  PROVE  OwnInv'
<1>a. /\ TabsInv /\ FwdInv /\ LockRecords /\ LockCloses /\ LockStopsAll /\ CoveredIsGone
      /\ locks' = locks /\ covered' = covered
  BY DEF LockInv, lockVars
<1>1. LockRecords'
  BY <1>a DEF LockRecords
<1>2. TabsGoOneWay
  BY <1>a, TabsOneWay
<1>3. LockCloses'
  <2> SUFFICES ASSUME NEW l \in LockCall
               PROVE  /\ locks[l].queue \subseteq locks[l].tabs
                      /\ \A t \in locks[l].tabs : status'[t] # "absent"
                      /\ \A t \in locks[l].tabs \ locks[l].queue :
                            status'[t] = "removed" \/ Closing(l, t)'
                      /\ closer'[l].mode # "pane"
                      /\ locks[l].state # "closing" => locks[l].queue = {} /\ closer'[l].mode = "idle"
    BY <1>a DEF LockCloses
  <2>1. /\ locks[l].queue \subseteq locks[l].tabs /\ locks[l].tabs \subseteq Tab
        /\ \A t \in locks[l].tabs : status[t] # "absent"
        /\ \A t \in locks[l].tabs \ locks[l].queue : status[t] = "removed" \/ Closing(l, t)
        /\ closer[l].mode # "pane"
        /\ locks[l].state # "closing" => locks[l].queue = {} /\ closer[l].mode = "idle"
    BY <1>a DEF LockCloses, LockRecords
  <2>2. \/ closer'[l].mode = closer[l].mode /\ closer'[l].tab = closer[l].tab
        \/ /\ closer'[l].mode = "idle"
           /\ \A t \in Tab : Closing(l, t) /\ status[t] # "absent" => status'[t] = "removed"
    BY <1>a, <2>1, ClosersGoOn, LockCallAssumption
  <2>3. ASSUME NEW t \in locks[l].tabs \ locks[l].queue
        PROVE  status'[t] = "removed" \/ Closing(l, t)'
    BY <1>2, <2>1, <2>2 DEF TabsGoOneWay, Closing
  <2> QED
    BY <1>2, <2>1, <2>2, <2>3 DEF TabsGoOneWay
<1>4. LockStopsAll'
  <2> SUFFICES ASSUME NEW l \in LockCall, NEW w \in locks[l].workers
               PROVE  /\ Started(w)'
                      /\ Disconnected(w)' \/ (w \in held' /\ locks[l].state = "closing")
    BY <1>a DEF LockStopsAll
  <2>1. w \in Start /\ Started(w)
    BY <1>a DEF LockRecords, LockStopsAll
  <2> QED
    BY <1>a, <2>1, WorkersGoOn DEF LockStopsAll
<1>5. CoveredIsGone'
  <2>1. \A t \in covered.tabs : status'[t] = "removed"
    BY <1>2, <1>a DEF CoveredIsGone, TabsGoOneWay, LockRecords
  <2>2. ASSUME NEW w \in covered.workers PROVE Started(w)' /\ Disconnected(w)'
    BY <1>a, WorkersGoOn DEF CoveredIsGone, LockRecords
  <2> QED
    BY <1>a, <2>1, <2>2 DEF CoveredIsGone
<1> QED
  BY <1>1, <1>3, <1>4, <1>5 DEF OwnInv

(* lock() begins: every open tab is in its list, every worker in the registry. *)
LEMMA StartKeepsLock ==
  ASSUME LockInv, NEW l \in LockCall, LockStart(l)
  PROVE  OwnInv'
<1>a. /\ FwdInv /\ LockRecords /\ LockCloses /\ LockStopsAll /\ CoveredIsGone /\ ViewTypes
      /\ held \subseteq Start
  BY TypeParts DEF LockInv, TabsInv, FwdInv, FwdTypeOK
<1> DEFINE new == [state |-> "closing", tabs |-> OpenTabs, queue |-> OpenTabs, workers |-> held]
<1>1. /\ locks' = [locks EXCEPT ![l] = new] /\ covered' = covered
      /\ UNCHANGED <<status, closer, starts, held, session, signal, stopper>>
  BY DEF LockStart, vars, tabVars, fwdVars
<1>2. \A k \in LockCall : locks'[k] = IF k = l THEN new ELSE locks[k]
  BY <1>a, <1>1 DEF LockRecords
<1>3. new.tabs = OpenTabs /\ new.queue = OpenTabs /\ new.workers = held /\ new.state = "closing"
  OBVIOUS
<1>4. OpenTabs \subseteq Tab /\ \A t \in OpenTabs : status[t] # "absent"
  BY DEF OpenTabs, Exists
<1>5. LockRecords'
  BY <1>a, <1>1, <1>4 DEF LockRecords
<1> HIDE DEF new
<1>6. LockCloses'
  BY <1>a, <1>1, <1>2, <1>3, <1>4 DEF LockCloses, Closing
<1>7. LockStopsAll'
  BY <1>a, <1>1, <1>2, <1>3, HeldIsStarted DEF LockStopsAll, Started, Disconnected
<1>8. CoveredIsGone'
  BY <1>a, <1>1 DEF CoveredIsGone, Started, Disconnected
<1> QED
  BY <1>5, <1>6, <1>7, <1>8 DEF OwnInv

(* It takes the next tab of its list. *)
LEMMA NextKeepsLock ==
  ASSUME LockInv, NEW l \in LockCall, NEW t \in Tab, LockNext(l, t)
  PROVE  OwnInv'
<1>a. /\ LockRecords /\ LockCloses /\ LockStopsAll /\ CoveredIsGone
      /\ closer \in [Closer -> CloserRecord] /\ l \in Closer
  BY TypeParts, LockCallAssumption DEF LockInv, TabsInv, CloserTypes
<1>1. /\ t \in locks[l].queue /\ closer[l].mode = "idle"
      /\ locks' = [locks EXCEPT ![l].queue = @ \ {t}] /\ covered' = covered
      /\ UNCHANGED <<status, starts, held, session, signal, stopper>>
  BY DEF LockNext, tabVars, fwdVars
<1>2. \A k \in LockCall : /\ locks'[k].queue = IF k = l THEN locks[k].queue \ {t} ELSE locks[k].queue
                          /\ locks'[k].tabs = locks[k].tabs
                          /\ locks'[k].workers = locks[k].workers
                          /\ locks'[k].state = locks[k].state
  BY <1>a, <1>1 DEF LockRecords
<1>3. /\ closer'[l].mode = "tab" /\ closer'[l].tab = t
      /\ \A k \in LockCall : k # l => closer'[k] = closer[k]
  BY <1>a, LockCallAssumption DEF LockNext, BeginCloseTab
<1>4. LockRecords'
  BY <1>a, <1>1 DEF LockRecords
<1>5. LockCloses'
  <2> SUFFICES ASSUME NEW k \in LockCall
               PROVE  /\ locks'[k].queue \subseteq locks'[k].tabs
                      /\ \A u \in locks'[k].tabs : status'[u] # "absent"
                      /\ \A u \in locks'[k].tabs \ locks'[k].queue :
                            status'[u] = "removed" \/ Closing(k, u)'
                      /\ closer'[k].mode # "pane"
                      /\ locks'[k].state # "closing" => locks'[k].queue = {} /\ closer'[k].mode = "idle"
    BY DEF LockCloses
  <2>1. CASE k = l
    BY <1>a, <1>1, <1>2, <1>3, <2>1 DEF LockCloses, Closing
  <2>2. CASE k # l
    BY <1>a, <1>1, <1>2, <1>3, <2>2 DEF LockCloses, Closing
  <2> QED
    BY <2>1, <2>2
<1>6. LockStopsAll'
  BY <1>a, <1>1, <1>2 DEF LockStopsAll, Started, Disconnected
<1>7. CoveredIsGone'
  BY <1>a, <1>1 DEF CoveredIsGone, Started, Disconnected
<1> QED
  BY <1>4, <1>5, <1>6, <1>7 DEF OwnInv

(* Its list is empty, and it stops all forwards: none is left in the registry. *)
LEMMA StopsKeepLock ==
  ASSUME LockInv, NEW l \in LockCall, LockStops(l)
  PROVE  OwnInv'
<1>a. /\ FwdInv /\ LockRecords /\ LockCloses /\ LockStopsAll /\ CoveredIsGone
      /\ held \subseteq Start /\ l \in Stopper
      /\ stopper \in [Stopper -> [mode : {"idle", "stop", "delete", "deleted", "all"},
                                  of : SUBSET Fwd, todo : SUBSET Start]]
  BY LockCallAssumption DEF LockInv, FwdInv, FwdTypeOK
<1>1. /\ locks[l].state = "closing" /\ locks[l].queue = {} /\ closer[l].mode = "idle"
      /\ StopAll(l) /\ [FwdNext]_fwdVars
      /\ locks' = [locks EXCEPT ![l].state = "stopping"] /\ covered' = covered
      /\ UNCHANGED <<status, closer>>
  BY <1>a DEF LockStops, vars, tabVars, FwdNext
<1>2. \A k \in LockCall : /\ locks'[k].state = IF k = l THEN "stopping" ELSE locks[k].state
                          /\ locks'[k].tabs = locks[k].tabs
                          /\ locks'[k].queue = locks[k].queue
                          /\ locks'[k].workers = locks[k].workers
  BY <1>a, <1>1 DEF LockRecords
<1>3. held' = {}
  BY <1>a, <1>1, RowOfAssumption DEF StopAll, TakeHandles
<1>4. LockRecords'
  BY <1>a, <1>1 DEF LockRecords
<1>5. LockCloses'
  BY <1>a, <1>1, <1>2 DEF LockCloses, Closing
<1>6. \A w \in Start : Started(w) => /\ Started(w)'
                                     /\ Disconnected(w) \/ w \in held => Disconnected(w)'
  BY <1>a, <1>1, <1>3, WorkersGoOn
<1>7. LockStopsAll'
  <2> SUFFICES ASSUME NEW k \in LockCall, NEW w \in locks[k].workers
               PROVE  Started(w)' /\ Disconnected(w)'
    BY <1>2 DEF LockStopsAll
  <2>1. w \in Start
    BY <1>a DEF LockRecords
  <2> QED
    BY <1>a, <1>6, <2>1 DEF LockStopsAll
<1>8. CoveredIsGone'
  <2>1. \A w \in covered.workers : w \in Start
    BY <1>a DEF LockRecords
  <2> QED
    BY <1>a, <1>1, <1>6, <2>1 DEF CoveredIsGone
<1> QED
  BY <1>4, <1>5, <1>7, <1>8 DEF OwnInv

(* The screen comes: the call covers what it has worked through. *)
LEMMA EndKeepsLock ==
  ASSUME LockInv, NEW l \in LockCall, LockEnds(l)
  PROVE  OwnInv'
<1>a. LockRecords /\ LockCloses /\ LockStopsAll /\ CoveredIsGone
  BY DEF LockInv
<1>1. /\ locks[l].state = "stopping"
      /\ locks' = [locks EXCEPT ![l] = IdleLock] /\ covered' = locks[l]
      /\ UNCHANGED <<status, closer, starts, held, session, signal, stopper>>
  BY DEF LockEnds, tabVars, fwdVars
<1>2. \A k \in LockCall : locks'[k] = IF k = l THEN IdleLock ELSE locks[k]
  BY <1>a, <1>1 DEF LockRecords
<1>3. LockRecords'
  BY <1>a, <1>1 DEF LockRecords, IdleLock
<1>4. LockCloses'
  BY <1>a, <1>1, <1>2 DEF LockCloses, Closing, IdleLock
<1>5. LockStopsAll'
  BY <1>a, <1>1, <1>2 DEF LockStopsAll, Started, Disconnected, IdleLock
<1>6. CoveredIsGone'
  BY <1>a, <1>1 DEF CoveredIsGone, LockCloses, LockStopsAll, Closing, Started, Disconnected
<1> QED
  BY <1>3, <1>4, <1>5, <1>6 DEF OwnInv

(* Every step keeps the invariant. *)
LEMMA LockInvStep == LockInv /\ [LockNextState]_allVars => LockInv'
<1> SUFFICES ASSUME LockInv, [LockNextState]_allVars PROVE LockInv'
  OBVIOUS
<1>1. TabsInv' /\ FwdInv'
  BY LockKeepsTabs, LockUsesForwards, ForwardsStep DEF LockInv
<1>2. OwnInv'
  <2>1. CASE UNCHANGED lockVars /\ [TabsNext]_vars
    BY <2>1, LockUsesForwards, OthersKeepLock
  <2>2. CASE Unlock
    BY <2>2 DEF Unlock, LockInv, OwnInv, LockRecords, LockCloses, LockStopsAll, CoveredIsGone,
                Closing, Started, Disconnected, lockVars, fwdVars, tabVars
  <2> QED
    BY <2>1, <2>2, StartKeepsLock, NextKeepsLock, StopsKeepLock, EndKeepsLock
       DEF LockNextState, LockStep, allVars
<1> QED
  BY <1>1, <1>2 DEF LockInv, OwnInv

---------------------------------------------------------------------------
(* The invariant holds in every reachable state. *)
LEMMA LockInvariant == LockSpec => []LockInv
BY LockInvInit, LockInvStep, PTL DEF LockSpec

(* Type correctness of the sessions, the forwards and the lock together. *)
THEOREM LockTyped == LockSpec => []LockTypeOK
<1>1. LockInv => LockTypeOK
  BY DEF LockInv, TabsInv, FwdInv, LockRecords, LockTypeOK
<1> QED
  BY <1>1, LockInvariant, PTL

(* Behind the lock screen the sessions and forwards that its lock() call   *)
(* had found are gone, however its steps, clicks, late answers and other   *)
(* lock() calls interleave, but for the exceptions LockCovers names.       *)
THEOREM LockAlwaysCovers == LockSpec => []LockCovers
<1>1. ASSUME LockInv PROVE LockCovers
  <2>a. /\ TypeOK /\ EntriesOpened /\ HoldersExist /\ CallsNameTabs /\ AllCalm
        /\ CoveredIsGone /\ LockRecords
    BY <1>1 DEF LockInv, TabsInv, LeafInv
  <2>1. ASSUME NEW c \in entries, call[c].tab \in covered.tabs, call[c].state = "settled"
        PROVE  call[c].tab \in crowded
    <3>1. call[c].tab \in Tab /\ ~Exists(call[c].tab)
      BY <2>a, <2>1 DEF CoveredIsGone, LockRecords, Exists
    <3>2. Held(call[c].tab) = {}
      BY <2>a, <3>1 DEF HoldersExist, Held
    <3> QED
      BY <2>a, <2>1, <3>1, <3>2 DEF AllCalm, Calm, NoneLost, Home, TypeOK, RegTypeOK
  <2>2. \A w \in covered.workers : Disconnected(w)
    BY <2>a DEF CoveredIsGone
  <2> QED
    BY <2>1, <2>2 DEF LockCovers, Disconnected
<1> QED
  BY <1>1, LockInvariant, PTL
=============================================================================
