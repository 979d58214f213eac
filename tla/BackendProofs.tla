--------------------------- MODULE BackendProofs ---------------------------
(***************************************************************************)
(* Theorems about SessionRegistry, Forwards and RemoteEdit, for every set  *)
(* of sessions, rows, calls and edits.  About the registry: its types,     *)
(* that no PTY driver is ever out of reach, and that it implements         *)
(* SessionLifecycle.  About the forwards: that no   *)
(* listening socket is out of reach, and that an insert that overwrites an *)
(* entry does not cost a listener.  About an edit: that no half-read file  *)
(* is left behind when its watcher is at rest.                             *)
(***************************************************************************)
EXTENDS MCBackend, TLAPS

---------------------------------------------------------------------------
(* SessionRegistry                                                         *)

(* What the five variables have in common, session by session: the emit    *)
(* task lives from registration to its announcement; only a registered     *)
(* session can be taken; an announced one is out of the map; and a running *)
(* driver has somebody who can still stop it, or is a shell's that was     *)
(* announced.                                                              *)
Coupled(c) ==
  /\ driver[c] = "none" <=> emitter[c] = "none"
  /\ driver[c] = "none" => c \notin entries \cup closing
  /\ emitter[c] = "done" => c \notin entries
  /\ c \in Shell => users[c] = 0
  /\ driver[c] = "running" => \/ c \in entries \cup closing
                              \/ users[c] > 0
                              \/ c \in Shell /\ emitter[c] = "done"

RegInv == RegTypeOK /\ \A c \in Conn : Coupled(c)

(* Every step keeps the types. *)
LEMMA RegistryTypesStep == RegTypeOK /\ [RegNext]_backend => RegTypeOK'
<1> SUFFICES ASSUME RegTypeOK, [RegNext]_backend PROVE RegTypeOK'
  OBVIOUS
<1> USE MaxUsersAssumption DEF RegTypeOK
<1>1. ASSUME NEW c \in Conn, Register(c) PROVE RegTypeOK'
  BY <1>1 DEF Register
<1>2. ASSUME NEW c \in Conn, StreamEnds(c) PROVE RegTypeOK'
  BY <1>2 DEF StreamEnds
<1>3. ASSUME NEW c \in Conn, Announce(c) PROVE RegTypeOK'
  BY <1>3 DEF Announce
<1>4. ASSUME NEW c \in Conn, TakeEntry(c) PROVE RegTypeOK'
  BY <1>4 DEF TakeEntry
<1>5. ASSUME NEW c \in Conn, CloseReturns(c) PROVE RegTypeOK'
  BY <1>5 DEF CloseReturns
<1>6. ASSUME NEW c \in Conn, KillShell(c) PROVE RegTypeOK'
  BY <1>6 DEF KillShell
<1>7. ASSUME NEW c \in Conn, SftpBegins(c) PROVE RegTypeOK'
  BY <1>7 DEF SftpBegins
<1>8. ASSUME NEW c \in Conn, SftpEnds(c) PROVE RegTypeOK'
  BY <1>8 DEF SftpEnds, Drop
<1>9. ASSUME NEW c \in Conn, EmitFails(c) PROVE RegTypeOK'
  BY <1>9 DEF EmitFails, Drop
<1>10. CASE UNCHANGED backend
  BY <1>10 DEF backend
<1> QED
  BY <1>1, <1>2, <1>3, <1>4, <1>5, <1>6, <1>7, <1>8, <1>9, <1>10 DEF RegNext, StopDriver

(* The initial state is well typed. *)
LEMMA RegistryTypesInit == RegInit => RegTypeOK
BY MaxUsersAssumption DEF RegInit, RegTypeOK

(* The registry's variables keep their types. *)
THEOREM RegistryTypes == RegSpec => []RegTypeOK
BY RegistryTypesInit, RegistryTypesStep, PTL DEF RegSpec

(* The invariant holds at first ... *)
LEMMA CouplingInit == RegInit => RegInv
BY MaxUsersAssumption DEF RegInit, RegInv, RegTypeOK, Coupled

(* Every step of the registry keeps its variables coupled. *)
LEMMA CouplingStep == RegInv /\ [RegNext]_backend => RegInv'
<1> SUFFICES ASSUME RegInv, [RegNext]_backend PROVE RegInv'
  OBVIOUS
<1> USE MaxUsersAssumption DEF RegInv, RegTypeOK, Coupled
<1>1. ASSUME NEW c \in Conn, Register(c) PROVE RegInv'
  BY <1>1 DEF Register
<1>2. ASSUME NEW c \in Conn, StreamEnds(c) PROVE RegInv'
  BY <1>2 DEF StreamEnds
<1>3. ASSUME NEW c \in Conn, Announce(c) PROVE RegInv'
  BY <1>3 DEF Announce
<1>4. ASSUME NEW c \in Conn, TakeEntry(c) PROVE RegInv'
  BY <1>4 DEF TakeEntry
<1>5. ASSUME NEW c \in Conn, CloseReturns(c) PROVE RegInv'
  BY <1>5 DEF CloseReturns
<1>6. ASSUME NEW c \in Conn, KillShell(c) PROVE RegInv'
  BY <1>6 DEF KillShell
<1>7. ASSUME NEW c \in Conn, SftpBegins(c) PROVE RegInv'
  BY <1>7 DEF SftpBegins
<1>8. ASSUME NEW c \in Conn, SftpEnds(c) PROVE RegInv'
  <2>1. RegTypeOK'
    BY <1>8 DEF SftpEnds, Drop
  <2>2. ASSUME NEW d \in Conn, d # c PROVE Coupled(d)'
    BY <1>8, <2>2 DEF SftpEnds, Drop
  <2>3. Coupled(c)'
    <3>1. driver'[c] = "running" => driver[c] = "running"
      BY <1>8 DEF SftpEnds, Drop
    <3>2. driver'[c] = "none" <=> driver[c] = "none"
      BY <1>8 DEF SftpEnds, Drop
    <3>3. users[c] = 1 /\ c \notin entries \cup closing /\ c \notin Shell => driver'[c] # "running"
      BY <1>8 DEF SftpEnds, Drop
    <3>4. users[c] # 1 => users'[c] > 0
      BY <1>8 DEF SftpEnds
    <3> QED
      BY <1>8, <3>1, <3>2, <3>3, <3>4 DEF SftpEnds
  <2> QED
    BY <2>1, <2>2, <2>3
<1>9. ASSUME NEW c \in Conn, EmitFails(c) PROVE RegInv'
  BY <1>9 DEF EmitFails, Drop
<1>10. CASE UNCHANGED backend
  BY <1>10 DEF backend
<1> QED
  BY <1>1, <1>2, <1>3, <1>4, <1>5, <1>6, <1>7, <1>8, <1>9, <1>10 DEF RegNext, StopDriver

(* Entries, driver, emit task and close calls stay coupled.                *)
THEOREM RegistryCoupled == RegSpec => []RegInv
BY CouplingInit, CouplingStep, PTL DEF RegSpec

(* No PTY driver task of open_ssh_session ever runs out of reach.          *)
THEOREM DriversReachable == RegSpec => []NoUnreachableDriver
<1>1. RegInv => NoUnreachableDriver
  BY DEF RegInv, Coupled, NoUnreachableDriver
<1> QED
  BY RegistryCoupled, <1>1, PTL

---------------------------------------------------------------------------
(* Every step of the registry is a step of SessionLifecycle or invisible   *)
(* to it.                                                                  *)
LEMMA LifecycleStep ==
  RegInv /\ [RegNext]_backend => [Lifecycle!Next]_(Lifecycle!vars)
<1> SUFFICES ASSUME RegInv, [RegNext]_backend
             PROVE  [Lifecycle!Next]_(Lifecycle!vars)
  OBVIOUS
<1> USE DEF RegInv, RegTypeOK, Coupled, PhaseOf
<1>1. ASSUME NEW c \in Conn, Register(c) PROVE Lifecycle!Open(c)
  BY <1>1 DEF Register, Lifecycle!Open
<1>2. ASSUME NEW c \in Conn, StreamEnds(c) PROVE Lifecycle!End(c)
  BY <1>2 DEF StreamEnds, Lifecycle!End
<1>3. ASSUME NEW c \in Conn, Announce(c) PROVE Lifecycle!Announce(c)
  BY <1>3 DEF Announce, Lifecycle!Announce
<1>4. ASSUME NEW c \in Conn, TakeEntry(c) PROVE Lifecycle!Withdraw(c)
  BY <1>4 DEF TakeEntry, Lifecycle!Withdraw
<1>5. ASSUME NEW c \in Conn, CloseReturns(c) PROVE UNCHANGED Lifecycle!vars
  BY <1>5 DEF CloseReturns, Lifecycle!vars
<1>6. ASSUME NEW c \in Conn, SftpBegins(c) \/ SftpEnds(c)
      PROVE UNCHANGED Lifecycle!vars
  <2>1. ASSUME NEW d \in Conn
        PROVE (driver'[d] = "none" <=> driver[d] = "none") /\ (driver'[d] = "stopped" <=> driver[d] = "stopped")
    BY <1>6 DEF SftpBegins, SftpEnds, Drop
  <2>2. entries' = entries /\ emitter' = emitter
    BY <1>6 DEF SftpBegins, SftpEnds
  <2>3. \A d \in Conn : PhaseOf(d)' = PhaseOf(d)
    BY <2>1, <2>2
  <2> QED
    BY <2>2, <2>3 DEF Lifecycle!vars
<1>7. ASSUME NEW c \in Conn, KillShell(c) PROVE UNCHANGED Lifecycle!vars
  BY <1>7 DEF KillShell, Lifecycle!vars
<1>8. ASSUME NEW c \in Conn, EmitFails(c) PROVE Lifecycle!GiveUp(c)
  <2>1. \A d \in Conn : /\ driver'[d] = "none" <=> driver[d] = "none"
                        /\ driver'[d] = "stopped" <=> driver[d] = "stopped"
    BY <1>8 DEF EmitFails, Drop
  <2>2. driver[c] # "none" /\ driver[c] # "stopped" /\ emitter[c] # "done"
    BY <1>8 DEF EmitFails
  <2>3. /\ emitter' = [emitter EXCEPT ![c] = "done"]
        /\ entries' = entries \ {c}
    BY <1>8 DEF EmitFails
  <2>4. PhaseOf(c) = "open" /\ PhaseOf(c)' = "given up"
    BY <2>1, <2>2, <2>3
  <2>5. \A d \in Conn \ {c} : PhaseOf(d)' = PhaseOf(d)
    BY <2>1, <2>3
  <2> HIDE DEF PhaseOf, RegInv
  <2> QED
    BY <2>3, <2>4, <2>5 DEF Lifecycle!GiveUp
<1>9. CASE UNCHANGED backend
  BY <1>9 DEF backend, Lifecycle!vars
<1> QED
  BY <1>1, <1>2, <1>3, <1>4, <1>5, <1>6, <1>7, <1>8, <1>9
     DEF RegNext, StopDriver, Lifecycle!Next

(* The manager, its driver and emit tasks and its commands together do     *)
(* what SessionLifecycle promises of a session.                            *)
THEOREM RegistryImplementsLifecycle == RegSpec => LifecycleSpec
<1>1. RegInit => Lifecycle!Init
  BY DEF RegInit, Lifecycle!Init, PhaseOf
<1> QED
  BY <1>1, LifecycleStep, RegistryCoupled, PTL DEF RegSpec, LifecycleSpec, Lifecycle!Spec

---------------------------------------------------------------------------
(* Forwards                                                                *)

(* Until it has bound its port a start call has nothing to show; until it  *)
(* has inserted its handle nobody else can have touched it; a handle that  *)
(* is being stopped is not in the registry.                                *)
StartsInOrder ==
  \A w \in Start :
    /\ starts[w] \in {"unused", "connecting"} => socket[w] = "down"
    /\ starts[w] \in {"unused", "connecting", "bound"} =>
         w \notin held /\ \A k \in Stopper : w \notin stopper[k].todo
    /\ \A k \in Stopper : w \in stopper[k].todo => w \notin held

(* An idle stop call owes nothing. *)
IdleStoppersDone ==
  \A k \in Stopper : stopper[k].mode = "idle" => stopper[k].todo = {}

(* One port, one listener. *)
PortsExclusive ==
  \A v, w \in Start :
    (SamePort(v, w) /\ socket[v] = "up" /\ socket[w] = "up") => v = w

FwdInv == /\ FwdTypeOK
          /\ StartsInOrder
          /\ IdleStoppersDone
          /\ PortsExclusive
          /\ ListenersReachable

(* The initial state satisfies the inductive invariant. *)
LEMMA ForwardsInit == FwdInit => FwdInv
BY DEF FwdInit, FwdInv, FwdTypeOK, StartsInOrder, IdleStoppersDone,
       PortsExclusive, ListenersReachable, IdleStopper, NotListing

(* The types are kept by every step. *)
LEMMA ForwardsTypes == FwdTypeOK /\ [FwdNext]_fwdVars => FwdTypeOK'
<1> SUFFICES ASSUME FwdTypeOK, [FwdNext]_fwdVars PROVE FwdTypeOK'
  OBVIOUS
<1> USE DEF FwdTypeOK
<1>1. ASSUME NEW w \in Start, StartForward(w) PROVE FwdTypeOK'
  BY <1>1 DEF StartForward
<1>2. ASSUME NEW w \in Start, StartFails(w) PROVE FwdTypeOK'
  BY <1>2 DEF StartFails
<1>3. ASSUME NEW w \in Start, StartBinds(w) PROVE FwdTypeOK'
  BY <1>3 DEF StartBinds
<1>4. ASSUME NEW w \in Start, StartInserts(w) PROVE FwdTypeOK'
  BY <1>4 DEF StartInserts
<1>5. ASSUME NEW w \in Start, StartAnswered(w) PROVE FwdTypeOK'
  BY <1>5, RowOfAssumption DEF StartAnswered
<1>6. ASSUME NEW k \in Stopper,
             \/ StopAll(k)
             \/ \E f \in Fwd : StopForward(k, f) \/ DeleteForward(k, f)
      PROVE  FwdTypeOK'
  <2>1. CASE StopAll(k)
    BY <2>1 DEF StopAll, TakeHandles
  <2>2. ASSUME NEW f \in Fwd, StopForward(k, f) PROVE FwdTypeOK'
    BY <2>2 DEF StopForward, TakeHandles
  <2>3. ASSUME NEW f \in Fwd, DeleteForward(k, f) PROVE FwdTypeOK'
    BY <2>3 DEF DeleteForward, TakeHandles
  <2> QED
    BY <1>6, <2>1, <2>2, <2>3
<1>7. ASSUME NEW k \in Stopper, NEW w \in Start, StopNext(k, w) PROVE FwdTypeOK'
  BY <1>7 DEF StopNext
<1>8. ASSUME NEW k \in Stopper, RowDeleted(k) PROVE FwdTypeOK'
  BY <1>8 DEF RowDeleted
<1>9. ASSUME NEW k \in Stopper, StopAnswered(k) PROVE FwdTypeOK'
  BY <1>9 DEF StopAnswered, IdleStopper
<1>10. CASE HostDeleted
  BY <1>10 DEF HostDeleted
<1>11. CASE ListActive \/ ListApplied
  BY <1>11, RowOfAssumption DEF ListActive, ListApplied, NotListing, Active
<1>12. ASSUME NEW w \in Start, ListenerEnds(w) \/ AcceptFails(w) \/ SessionDies(w)
       PROVE  FwdTypeOK'
  BY <1>12 DEF ListenerEnds, AcceptFails, SessionDies
<1>13. CASE UNCHANGED fwdVars
  BY <1>13 DEF fwdVars
<1> QED
  BY <1>1, <1>2, <1>3, <1>4, <1>5, <1>6, <1>7, <1>8, <1>9, <1>10, <1>11,
     <1>12, <1>13, UserStopperAssumption
     DEF FwdNext, FwdClick, FwdWork, StartStep, StopperStep

(* Every step keeps the inductive invariant. *)
LEMMA ForwardsStep == FwdInv /\ [FwdNext]_fwdVars => FwdInv'
<1> SUFFICES ASSUME FwdInv, [FwdNext]_fwdVars
             PROVE  /\ StartsInOrder'
                    /\ IdleStoppersDone'
                    /\ PortsExclusive'
                    /\ ListenersReachable'
  BY ForwardsTypes DEF FwdInv
<1> DEFINE Goal == /\ StartsInOrder'
                  /\ IdleStoppersDone'
                  /\ PortsExclusive'
                  /\ ListenersReachable'
<1> USE DEF FwdInv, FwdTypeOK, StartsInOrder, IdleStoppersDone, PortsExclusive,
            ListenersReachable
<1>1. ASSUME NEW w \in Start, StartForward(w) PROVE Goal
  BY <1>1 DEF StartForward
<1>2. ASSUME NEW w \in Start, StartFails(w) PROVE Goal
  BY <1>2 DEF StartFails
<1>3. ASSUME NEW w \in Start, StartBinds(w) PROVE Goal
  <2>1. PortsExclusive'
    BY <1>3 DEF StartBinds, SamePort
  <2>2. StartsInOrder' /\ IdleStoppersDone' /\ ListenersReachable'
    BY <1>3 DEF StartBinds
  <2> QED
    BY <2>1, <2>2
<1>4. ASSUME NEW w \in Start, StartInserts(w) PROVE Goal
  BY <1>4 DEF StartInserts
<1>5. ASSUME NEW w \in Start, StartAnswered(w) PROVE Goal
  BY <1>5, RowOfAssumption DEF StartAnswered
<1>6. ASSUME NEW k \in Stopper,
             \/ StopAll(k)
             \/ \E f \in Fwd : StopForward(k, f) \/ DeleteForward(k, f)
      PROVE  Goal
  <2>1. CASE StopAll(k)
    BY <2>1 DEF StopAll, TakeHandles
  <2>2. ASSUME NEW f \in Fwd, StopForward(k, f) PROVE Goal
    BY <2>2 DEF StopForward, TakeHandles
  <2>3. ASSUME NEW f \in Fwd, DeleteForward(k, f) PROVE Goal
    BY <2>3 DEF DeleteForward, TakeHandles
  <2> QED
    BY <1>6, <2>1, <2>2, <2>3
<1>7. ASSUME NEW k \in Stopper, NEW w \in Start, StopNext(k, w) PROVE Goal
  BY <1>7 DEF StopNext
<1>8. ASSUME NEW k \in Stopper, RowDeleted(k) PROVE Goal
  BY <1>8 DEF RowDeleted
<1>9. ASSUME NEW k \in Stopper, StopAnswered(k) PROVE Goal
  BY <1>9 DEF StopAnswered, IdleStopper
<1>10. CASE HostDeleted \/ ListActive \/ ListApplied
  BY <1>10 DEF HostDeleted, ListActive, ListApplied
<1>11. ASSUME NEW w \in Start, ListenerEnds(w) \/ AcceptFails(w) \/ SessionDies(w)
       PROVE  Goal
  BY <1>11 DEF ListenerEnds, AcceptFails, SessionDies
<1>12. CASE UNCHANGED fwdVars
  BY <1>12 DEF fwdVars
<1> QED
  BY <1>1, <1>2, <1>3, <1>4, <1>5, <1>6, <1>7, <1>8, <1>9, <1>10, <1>11,
     <1>12, UserStopperAssumption
     DEF FwdNext, FwdClick, FwdWork, StartStep, StopperStep

(* Type correctness. *)
THEOREM ForwardsTyped == FwdSpec => []FwdTypeOK
<1>1. FwdInv => FwdTypeOK
  BY DEF FwdInv
<1> QED
  BY ForwardsInit, ForwardsStep, <1>1, PTL DEF FwdSpec

(* Every listening socket can be stopped, whatever starts, stops and       *)
(* deletes run at once.                                                    *)
THEOREM ListenersAlwaysReachable == FwdSpec => []ListenersReachable
<1>1. FwdInv => ListenersReachable
  BY DEF FwdInv
<1> QED
  BY ForwardsInit, ForwardsStep, <1>1, PTL DEF FwdSpec

(* An insert that overwrites an entry drops a listener only when its own   *)
(* has ended: the port, not the registry check, is what excludes the other *)
(* case.                                                                   *)
THEOREM OverwriteIsSafe == FwdSpec => OverwriteSparesListener
<1>1. FwdInv /\ [FwdNext]_fwdVars =>
        [\A v \in Start : signal[v] # "dropped" /\ signal'[v] = "dropped" =>
             \/ socket[v] = "down"
             \/ \E w \in Start : /\ RowOf[w] = RowOf[v] /\ starts[w] = "bound"
                                 /\ socket[w] = "down"]_fwdVars
  <2> DEFINE Spared ==
          \A v \in Start : signal[v] # "dropped" /\ signal'[v] = "dropped" =>
            \/ socket[v] = "down"
            \/ \E w \in Start : /\ RowOf[w] = RowOf[v] /\ starts[w] = "bound"
                                /\ socket[w] = "down"
  <2> SUFFICES ASSUME FwdInv, FwdNext PROVE Spared
    OBVIOUS
  <2> USE DEF FwdInv, FwdTypeOK
  <2>1. ASSUME NEW w \in Start, StartInserts(w) PROVE Spared
    <3> SUFFICES ASSUME NEW v \in held, RowOf[v] = RowOf[w], socket[v] = "up"
                 PROVE  socket[w] = "down"
      BY <2>1 DEF StartInserts
    <3>1. SamePort(v, w) /\ v # w
      BY <2>1 DEF StartInserts, SamePort, Kinds, StartsInOrder
    <3> QED
      BY <3>1 DEF PortsExclusive
  <2>2. ASSUME NEW k \in Stopper, NEW w \in Start, StopNext(k, w) PROVE Spared
    BY <2>2 DEF StopNext
  <2>3. ASSUME UNCHANGED signal PROVE Spared
    BY <2>3
  <2> QED
    BY <2>1, <2>2, <2>3
       DEF FwdNext, FwdClick, FwdWork, StartStep, StopperStep, StopForward,
           DeleteForward, StopAll, StartForward, StartFails, StartBinds,
           StartAnswered, TakeHandles, RowDeleted, StopAnswered, HostDeleted,
           ListActive, ListApplied, ListenerEnds, AcceptFails, SessionDies
<1> QED
  BY ForwardsInit, ForwardsStep, <1>1, PTL DEF FwdSpec, OverwriteSparesListener

---------------------------------------------------------------------------
(* RemoteEdit                                                              *)

Tasks == {"none", "opened", "watching", "reading", "writing", "ended"}

(* Saves are numbered as they are made: the watcher has seen none that is   *)
(* later than the file's, and reads none that is earlier than the one it    *)
(* saw.  An upload under way has not failed, and nothing was sent before    *)
(* the watch.                                                               *)
InOrder(e) ==
  /\ local[e].save <= saves
  /\ task[e] \in {"none", "opened"} => sent[e] = <<0, 0>>
  /\ task[e] \in {"watching", "reading", "writing"} => seen[e] <= local[e].save
  /\ task[e] \in {"reading", "writing"} => ~failed[e]
  /\ task[e] = "writing" => seen[e] <= half[e] /\ half[e] <= local[e].save

(* When the watcher has seen the file as it is, and its upload did not fail, *)
(* what it sent last is that file, both halves of it, or nothing yet.        *)
WholeAtRest ==
  \A e \in EDITS :
    task[e] = "watching" /\ seen[e] = local[e].save /\ ~failed[e] =>
      sent[e] \in {<<0, 0>>, <<seen[e], seen[e]>>}

EditInv ==
  /\ EditTypeOK
  /\ saves \in 0..SAVES
  /\ \A e \in EDITS : InOrder(e)
  /\ WholeAtRest

(* With no file open it holds. *)
LEMMA EditStarts == EditInit => EditInv
BY EditAssumption DEF Remotes, EditInit, EditInv, EditTypeOK, InOrder, WholeAtRest

(* Every step keeps the types, with the bounds of what can be read.        *)
LEMMA EditTypesStep ==
  ASSUME EditInv, [EditNext]_editVars
  PROVE  EditTypeOK' /\ saves' \in 0..SAVES
<1> DEFINE Typed == EditTypeOK' /\ saves' \in 0..SAVES
<1> USE EditAssumption DEF EditTypeOK, EditInv
<1>1. ASSUME NEW e \in EDITS, EditorOpens(e) PROVE Typed
  BY <1>1 DEF EditorOpens
<1>2. ASSUME NEW e \in EDITS, WatchStarts(e) PROVE Typed
  BY <1>2 DEF WatchStarts
<1>3. ASSUME NEW e \in EDITS, EditorSaves(e) PROVE Typed
  BY <1>3 DEF EditorSaves, Save_
<1>4. ASSUME NEW e \in EDITS, EditorRemoves(e) PROVE Typed
  BY <1>4 DEF EditorRemoves
<1>5. ASSUME NEW e \in EDITS, EditorReplaces(e) PROVE Typed
  BY <1>5 DEF EditorReplaces, Save_
<1>6. ASSUME NEW e \in EDITS, Poll(e) PROVE Typed
  BY <1>6 DEF Poll
<1>7. ASSUME NEW e \in EDITS, ReadsHalf(e) PROVE Typed
  BY <1>7 DEF ReadsHalf, Remotes
<1>8. ASSUME NEW e \in EDITS, Uploads(e) PROVE Typed
  BY <1>8 DEF Uploads, Remotes
<1>9. ASSUME NEW e \in EDITS, UploadFails(e) PROVE Typed
  <2>1. remote' \in {remote, <<>>, <<half[e]>>} /\ half[e] \in 0..SAVES
    BY <1>9 DEF UploadFails
  <2>2. remote' \in Remotes
    BY <2>1 DEF Remotes
  <2> QED
    BY <1>9, <2>2 DEF UploadFails, Save_
<1>10. CASE UNCHANGED editVars
  BY <1>10 DEF editVars
<1> QED
  BY <1>1, <1>2, <1>3, <1>4, <1>5, <1>6, <1>7, <1>8, <1>9, <1>10 DEF EditNext

(* Every step keeps the order of what each watcher has seen and reads.     *)
LEMMA EditOrderStep ==
  ASSUME EditInv, [EditNext]_editVars, NEW d \in EDITS
  PROVE  InOrder(d)'
<1> USE EditAssumption DEF EditTypeOK, EditInv, InOrder
<1>1. ASSUME NEW e \in EDITS, EditorOpens(e) PROVE InOrder(d)'
  BY <1>1 DEF EditorOpens
<1>2. ASSUME NEW e \in EDITS, WatchStarts(e) PROVE InOrder(d)'
  BY <1>2 DEF WatchStarts
<1>3. ASSUME NEW e \in EDITS, EditorSaves(e) PROVE InOrder(d)'
  BY <1>3 DEF EditorSaves, Save_
<1>4. ASSUME NEW e \in EDITS, EditorRemoves(e) PROVE InOrder(d)'
  BY <1>4 DEF EditorRemoves
<1>5. ASSUME NEW e \in EDITS, EditorReplaces(e) PROVE InOrder(d)'
  BY <1>5 DEF EditorReplaces, Save_
<1>6. ASSUME NEW e \in EDITS, Poll(e) PROVE InOrder(d)'
  BY <1>6 DEF Poll
<1>7. ASSUME NEW e \in EDITS, ReadsHalf(e) PROVE InOrder(d)'
  BY <1>7 DEF ReadsHalf
<1>8. ASSUME NEW e \in EDITS, Uploads(e) PROVE InOrder(d)'
  BY <1>8 DEF Uploads
<1>9. ASSUME NEW e \in EDITS, UploadFails(e) PROVE InOrder(d)'
  BY <1>9 DEF UploadFails, Save_
<1>10. CASE UNCHANGED editVars
  BY <1>10 DEF editVars
<1> QED
  BY <1>1, <1>2, <1>3, <1>4, <1>5, <1>6, <1>7, <1>8, <1>9, <1>10 DEF EditNext

(* Every step leaves a watcher at rest with a whole file: a save moves the *)
(* file away from what was seen, and an upload that reads two saves ends    *)
(* with the later one unseen.                                               *)
LEMMA EditRestStep == EditInv /\ [EditNext]_editVars => WholeAtRest'
<1> DEFINE Whole(d) == task[d] = "watching" /\ seen[d] = local[d].save /\ ~failed[d] =>
                         sent[d] \in {<<0, 0>>, <<seen[d], seen[d]>>}
<1> SUFFICES ASSUME EditInv, [EditNext]_editVars, NEW d \in EDITS PROVE Whole(d)'
  BY DEF WholeAtRest
<1> USE EditAssumption DEF EditTypeOK, EditInv, InOrder
<1>0. Whole(d)
  BY DEF WholeAtRest
<1>1. ASSUME NEW e \in EDITS, EditorOpens(e) PROVE Whole(d)'
  BY <1>0, <1>1 DEF EditorOpens
<1>2. ASSUME NEW e \in EDITS, WatchStarts(e) PROVE Whole(d)'
  BY <1>0, <1>2 DEF WatchStarts
<1>3. ASSUME NEW e \in EDITS, EditorSaves(e) PROVE Whole(d)'
  BY <1>0, <1>3 DEF EditorSaves, Save_
<1>4. ASSUME NEW e \in EDITS, EditorRemoves(e) PROVE Whole(d)'
  BY <1>0, <1>4 DEF EditorRemoves
<1>5. ASSUME NEW e \in EDITS, EditorReplaces(e) PROVE Whole(d)'
  BY <1>0, <1>5 DEF EditorReplaces, Save_
<1>6. ASSUME NEW e \in EDITS, Poll(e) PROVE Whole(d)'
  BY <1>0, <1>6 DEF Poll
<1>7. ASSUME NEW e \in EDITS, ReadsHalf(e) PROVE Whole(d)'
  BY <1>0, <1>7 DEF ReadsHalf
<1>8. ASSUME NEW e \in EDITS, Uploads(e) PROVE Whole(d)'
  <2>1. PICK rest \in {half[e], local[e].save} : remote' = <<half[e], rest>>
    BY <1>8 DEF Uploads
  <2>2. sent' = [sent EXCEPT ![e] = <<half[e], rest>>]
    BY <2>1, <1>8 DEF Uploads
  <2>3. CASE d = e
    <3>1. sent'[d] = <<half[e], rest>>
      BY <2>2, <2>3
    <3>2. task[e] = "writing" /\ UNCHANGED <<local, seen, half>>
      BY <1>8 DEF Uploads
    <3>3. seen[d] = local[d].save => half[e] = seen[d] /\ rest = seen[d]
      <4>1. seen[e] <= half[e] /\ half[e] <= local[e].save
        BY <3>2
      <4>2. seen[e] \in Nat /\ half[e] \in Nat /\ local[e].save \in Nat
        OBVIOUS
      <4> QED
        BY ONLY <2>1, <2>3, <4>1, <4>2
    <3> QED
      BY <3>1, <3>2, <3>3
  <2>4. CASE d # e
    BY <1>0, <1>8, <2>2, <2>4 DEF Uploads
  <2> QED
    BY <2>3, <2>4
<1>9. ASSUME NEW e \in EDITS, UploadFails(e) PROVE Whole(d)'
  BY <1>0, <1>9 DEF UploadFails, Save_
<1>10. CASE UNCHANGED editVars
  BY <1>0, <1>10 DEF editVars
<1> QED
  BY <1>1, <1>2, <1>3, <1>4, <1>5, <1>6, <1>7, <1>8, <1>9, <1>10 DEF EditNext

(* All of it is inductive.                                                 *)
LEMMA EditStep == EditInv /\ [EditNext]_editVars => EditInv'
BY EditTypesStep, EditOrderStep, EditRestStep DEF EditInv

(* An edit's variables keep their types, so no save is read that has not   *)
(* been made.                                                              *)
THEOREM EditTyped == EditSpec => []EditTypeOK
<1>1. EditInv => EditTypeOK
  BY DEF EditInv
<1> QED
  BY EditStarts, EditStep, <1>1, PTL DEF EditSpec

(* The safety half of SavesReachRemote: a watcher with nothing left to do  *)
(* and no failed upload leaves no half-read file on the host, however the  *)
(* saves and the two reads of an upload interleave.                        *)
THEOREM EditsWholeAtRest == EditSpec => []WholeAtRest
<1>1. EditInv => WholeAtRest
  BY DEF EditInv
<1> QED
  BY EditStarts, EditStep, <1>1, PTL DEF EditSpec

---------------------------------------------------------------------------
(* The three side by side                                                  *)

(* A step of one is a step of its own, or none, for each of them.          *)
LEMMA BackendIsThree == BackendSpec => RegSpec /\ FwdSpec /\ EditSpec
<1>1. BackendInit => RegInit /\ FwdInit /\ EditInit
  BY DEF BackendInit
<1>2. [BackendNext]_BackendVars =>
        [RegNext]_backend /\ [FwdNext]_fwdVars /\ [EditNext]_editVars
  BY DEF BackendNext, BackendVars
<1> QED
  BY <1>1, <1>2, PTL DEF BackendSpec, RegSpec, FwdSpec, EditSpec

(* The types of all three, in every behaviour of the composition.          *)
THEOREM BackendTyped == BackendSpec => []BackendTypeOK
BY BackendIsThree, RegistryTypes, ForwardsTyped, EditTyped, PTL DEF BackendTypeOK
============================================================================
