----------------------------- MODULE VaultLock -----------------------------
(***************************************************************************)
(* lock() and unlock() of stores/useVaultStore.ts over the sessions of     *)
(* SessionTabs and the port forwards of Forwards.  lock() closes the tabs  *)
(* of a list it read once, one after the other, then calls                 *)
(* stop_all_port_forwards, and only then sets `locked`: until that moment  *)
(* the user can click, and the idle timer of MainLayout can call lock()    *)
(* again.  A PIN is set (hasMaster).                                       *)
(***************************************************************************)
EXTENDS SessionTabs, Forwards

CONSTANT LockCall             \* bound: lock() calls in flight

(* A lock() call runs closeTab and stop_all under its own name. *)
ASSUME LockCallAssumption == /\ LockCall \subseteq Closer \ UserCloser
                             /\ LockCall \subseteq Stopper \ UserStopper

VARIABLES
  locks,      \* each lock() call: where it is, the tabs it read, those left
  covered     \* history: the tabs and forwards the last lock to end had found

lockVars == <<locks, covered>>
allVars == <<vars, fwdVars, lockVars>>

IdleLock == [state |-> "idle", tabs |-> {}, queue |-> {}, workers |-> {}]
OpenTabs == {t \in Tab : Exists(t)}

LockInit == /\ Init
            /\ FwdInit
            /\ locks = [l \in LockCall |-> IdleLock]
            /\ covered = IdleLock

---------------------------------------------------------------------------
(* Mutant: the list holds leaves, not tabs. *)
LockStartByLeaves(l) ==
  /\ ~locked
  /\ locks[l].state = "idle"
  /\ locks' = [locks EXCEPT ![l] =
       [state |-> "closing", tabs |-> OpenTabs, workers |-> held,
        queue |-> UNION {Held(t) : t \in OpenTabs}]]
  /\ UNCHANGED <<vars, fwdVars, covered>>

(* The idle timer calls lock(). *)
LockStart(l) ==
  /\ ~locked
  /\ locks[l].state = "idle"
  /\ locks' = [locks EXCEPT ![l] = [state |-> "closing", tabs |-> OpenTabs,
                                    queue |-> OpenTabs, workers |-> held]]
  /\ UNCHANGED <<vars, fwdVars, covered>>

(* Mutant: the list does not advance. *)
LockNextAgain(l, t) ==
  /\ t \in locks[l].queue
  /\ closer[l].mode = "idle"
  /\ BeginCloseTab(l, t)
  /\ Crowds(t, Busy(t))
  /\ UNCHANGED <<backend, tabVars, viewVars, call, auto, locked, fwdVars, lockVars>>

(* await closeTab(tab.id) for the next tab of the list. *)
LockNext(l, t) ==
  /\ t \in locks[l].queue
  /\ closer[l].mode = "idle"
  /\ BeginCloseTab(l, t)
  /\ locks' = [locks EXCEPT ![l].queue = @ \ {t}]
  /\ Crowds(t, Busy(t))
  /\ UNCHANGED <<backend, tabVars, viewVars, call, auto, locked, fwdVars, covered>>

(* Mutant: the forwards are left alone. *)
LockStopsNothing(l) ==
  /\ locks[l].state = "closing"
  /\ locks[l].queue = {}
  /\ closer[l].mode = "idle"
  /\ locks' = [locks EXCEPT ![l].state = "stopping"]
  /\ UNCHANGED <<vars, fwdVars, covered>>

(* await portForwardsApi.stopAll(). *)
LockStops(l) ==
  /\ locks[l].state = "closing"
  /\ locks[l].queue = {}
  /\ closer[l].mode = "idle"
  /\ StopAll(l)
  /\ locks' = [locks EXCEPT ![l].state = "stopping"]
  /\ UNCHANGED <<vars, covered>>

(* set({ locked: true }). *)
LockEnds(l) ==
  /\ locks[l].state = "stopping"
  /\ stopper[l].mode = "idle"
  /\ locked' = TRUE
  /\ covered' = locks[l]
  /\ locks' = [locks EXCEPT ![l] = IdleLock]
  /\ UNCHANGED <<backend, tabVars, viewVars, call, auto, closer, crowded, fwdVars>>

(* unlock() with the right PIN. *)
Unlock ==
  /\ locked
  /\ locked' = FALSE
  /\ UNCHANGED <<backend, tabVars, viewVars, call, auto, closer, crowded,
                 fwdVars, lockVars>>

LockStep(l) == \/ \E t \in Tab : LockNext(l, t)
               \/ LockStops(l)
               \/ LockEnds(l)

LockNextState ==
  \/ TabsNext /\ UNCHANGED <<fwdVars, lockVars>>
  \/ FwdWork /\ UNCHANGED <<vars, lockVars>>
  \/ ~locked /\ FwdClick /\ UNCHANGED <<vars, lockVars>>
  \/ \E l \in LockCall : LockStart(l) \/ LockStep(l)
  \/ Unlock

LockSpec == LockInit /\ [][LockNextState]_allVars

LockFairSpec == /\ LockSpec
                /\ Fairness
                /\ FwdFairness
                /\ \A l \in LockCall : WF_allVars(LockStep(l))

---------------------------------------------------------------------------
LockTypeOK ==
  /\ TypeOK
  /\ FwdTypeOK
  /\ locks \in [LockCall -> [state : {"idle", "closing", "stopping"}, tabs : SUBSET Tab,
                             queue : SUBSET Tab, workers : SUBSET Start]]
  /\ covered \in [state : {"idle", "stopping"}, tabs : SUBSET Tab,
                  queue : SUBSET Tab, workers : SUBSET Start]

(* What the lock screen does guarantee.  The sessions of the tabs lock()   *)
(* had found are closed, unless something overlapped on the tab (crowded), *)
(* which an open call unanswered when lock() came to it is a case of; the  *)
(* forwards that ran when it began are disconnected, unless another stop   *)
(* or delete call holds them or an overwriting start dropped them.         *)
LockCovers ==
  /\ \A c \in entries :
       (locked /\ call[c].tab \in covered.tabs /\ call[c].state = "settled")
          => call[c].tab \in crowded
  /\ \A w \in covered.workers :
       locked => \/ session[w] = "closed"
                 \/ signal[w] = "dropped"
                 \/ \E k \in Stopper : w \in stopper[k].todo

(* lock() ends, so the screen does get locked: also when an SFTP command   *)
(* holds the Mutex of a session it closes, the peer hangs up meanwhile, an *)
(* open call stays unanswered or a forward's start is under way.  It rests *)
(* on RegFairness's assumptions about a write that the peer holds up.      *)
LockCompletes ==
  \A l \in LockCall : (locks[l].state # "idle") ~> (locks[l].state = "idle")

---------------------------------------------------------------------------
(* What a comment says and the code does not keep (see the findings).      *)

(* "we don't keep authenticated SSH sessions alive behind a lock prompt":  *)
(* behind the screen no session is in the backend's map.                   *)
NoSessionBehindLock == locked => entries = {}
===========================================================================
