------------------------------ MODULE Forwards ------------------------------
(***************************************************************************)
(* Port forwards: the rows of one host, the start / stop / delete commands *)
(* of commands/port_forwards.rs, the ForwardRegistry and the workers of    *)
(* port_forward/mod.rs, and the `active` set useForwardsStore.ts shows.    *)
(* start_port_forward checks the registry, connects for seconds, binds,    *)
(* and only then inserts: nothing is locked in between.  A worker is       *)
(* identified with the start call that makes it.  A -D forward is a -L one *)
(* here; for -R the server holds the port.                                 *)
(***************************************************************************)
EXTENDS Naturals

CONSTANTS Fwd,                \* rows of port_forwards, all of one host
          Start,              \* bound: start_port_forward calls ever made
          RowOf,              \* the row each call is for
          Stopper,            \* bound: stop / delete / stop-all calls in flight
          UserStopper,        \* those a click may use
          PortOf,             \* local_port of each row
          KindOf              \* "local" (also dynamic) or "remote"

ASSUME UserStopperAssumption == UserStopper \subseteq Stopper
ASSUME RowOfAssumption == RowOf \in [Start -> Fwd]
ASSUME KindOfAssumption == KindOf \in [Fwd -> {"local", "remote"}]

Kinds(w) == KindOf[RowOf[w]]
(* A -L and a -R port of the same number are ports of two machines. *)
SamePort(v, w) == /\ PortOf[RowOf[v]] = PortOf[RowOf[w]]
                  /\ Kinds(v) = Kinds(w)

VARIABLES
  rows,       \* rows in the database
  starts,     \* each start_port_forward call
  held,       \* workers whose RunningForward is in the registry
  socket,     \* who listens: the TcpListener, or the server for -R
  session,    \* the SSH session each worker owns
  signal,     \* its watch channel: "live", "stop" sent, or "dropped"
  stopper,    \* stop / delete / stop_all calls in flight
  active,     \* useForwardsStore.active
  listing     \* refreshActive: ids read by the backend, not applied yet

fwdVars == <<rows, starts, held, socket, session, signal, stopper, active, listing>>

IdleStopper == [mode |-> "idle", of |-> {}, todo |-> {}]
NotListing == [state |-> "idle", ids |-> {}]
Active == {RowOf[w] : w \in held}

FwdInit == /\ rows = Fwd
           /\ starts = [w \in Start |-> "unused"]
           /\ held = {}
           /\ socket = [w \in Start |-> "down"]
           /\ session = [w \in Start |-> "none"]
           /\ signal = [w \in Start |-> "live"]
           /\ stopper = [k \in Stopper |-> IdleStopper]
           /\ active = {}
           /\ listing = NotListing

---------------------------------------------------------------------------
(* The Start button of a row shown as stopped.  The command checks the     *)
(* registry and reads the row; one already running is refused at once.     *)
StartForward(w) ==
  /\ starts[w] = "unused"
  /\ RowOf[w] \in rows \ active
  /\ RowOf[w] \notin Active
  /\ starts' = [starts EXCEPT ![w] = "connecting"]
  /\ UNCHANGED <<rows, held, socket, session, signal, stopper, active, listing>>

(* connect_for_forward, or binding the port, fails. *)
StartFails(w) ==
  /\ starts[w] = "connecting"
  /\ starts' = [starts EXCEPT ![w] = "over"]
  /\ UNCHANGED <<rows, held, socket, session, signal, stopper, active, listing>>

(* Mutant: the port need not be free. *)
StartBindsShared(w) ==
  /\ starts[w] = "connecting"
  /\ starts' = [starts EXCEPT ![w] = "bound"]
  /\ socket' = [socket EXCEPT ![w] = "up"]
  /\ session' = [session EXCEPT ![w] = "up"]
  /\ UNCHANGED <<rows, held, signal, stopper, active, listing>>

(* start_local / start_dynamic / start_remote: the operating system, or    *)
(* the server, gives one port to one listener.                             *)
StartBinds(w) ==
  /\ starts[w] = "connecting"
  /\ \A v \in Start : SamePort(v, w) => socket[v] = "down"
  /\ starts' = [starts EXCEPT ![w] = "bound"]
  /\ socket' = [socket EXCEPT ![w] = "up"]
  /\ session' = [session EXCEPT ![w] = "up"]
  /\ UNCHANGED <<rows, held, signal, stopper, active, listing>>

(* registry.insert: an entry of the same id is overwritten and dropped,    *)
(* which closes its watch channel without sending anything.  The listener  *)
(* task of a -L keeps a clone of the session; a -R's session goes with it. *)
StartInserts(w) ==
  LET old == {v \in held : RowOf[v] = RowOf[w]}
  IN /\ starts[w] = "bound"
     /\ starts' = [starts EXCEPT ![w] = "inserted"]
     /\ held' = (held \ old) \cup {w}
     /\ signal' = [v \in Start |-> IF v \in old THEN "dropped" ELSE signal[v]]
     /\ session' = [v \in Start |-> IF v \in old /\ Kinds(v) = "remote"
                                      THEN "closed" ELSE session[v]]
     /\ UNCHANGED <<rows, socket, stopper, active, listing>>

(* Mutant: the store keeps the worker, not the row. *)
StartAnsweredByWorker(w) ==
  /\ starts[w] = "inserted"
  /\ starts' = [starts EXCEPT ![w] = "over"]
  /\ active' = active \cup {w}
  /\ UNCHANGED <<rows, held, socket, session, signal, stopper, listing>>

(* The store's start resumes. *)
StartAnswered(w) ==
  /\ starts[w] = "inserted"
  /\ starts' = [starts EXCEPT ![w] = "over"]
  /\ active' = active \cup {RowOf[w]}
  /\ UNCHANGED <<rows, held, socket, session, signal, stopper, listing>>

---------------------------------------------------------------------------
(* The Stop button, the Delete button, and stop_all_port_forwards: the     *)
(* handles are taken out of the registry first.                            *)
TakeHandles(k, mode, of) ==
  LET taken == {w \in held : RowOf[w] \in of}
  IN /\ stopper[k].mode = "idle"
     /\ held' = held \ taken
     /\ stopper' = [stopper EXCEPT ![k] = [mode |-> mode, of |-> of, todo |-> taken]]
     /\ UNCHANGED <<rows, starts, socket, session, signal, active, listing>>

StopForward(k, f) == f \in rows \cap active /\ TakeHandles(k, "stop", {f})
DeleteForward(k, f) == f \in rows /\ TakeHandles(k, "delete", {f})
StopAll(k) == TakeHandles(k, "all", Fwd)

(* Mutant: no signal, only a disconnect. *)
StopNextUnsignalled(k, w) ==
  /\ w \in stopper[k].todo
  /\ stopper' = [stopper EXCEPT ![k].todo = @ \ {w}]
  /\ session' = [session EXCEPT ![w] = "closed"]
  /\ UNCHANGED <<rows, starts, held, socket, signal, active, listing>>

(* RunningForward::stop for one handle: signal, then disconnect.  A dead   *)
(* session's disconnect fails, which is only logged.                       *)
StopNext(k, w) ==
  /\ w \in stopper[k].todo
  /\ stopper' = [stopper EXCEPT ![k].todo = @ \ {w}]
  /\ signal' = [signal EXCEPT ![w] = "stop"]
  /\ session' = [session EXCEPT ![w] = "closed"]
  /\ UNCHANGED <<rows, starts, held, socket, active, listing>>

(* delete_port_forward goes on to the row ... *)
RowDeleted(k) ==
  /\ stopper[k].mode = "delete"
  /\ stopper[k].todo = {}
  /\ stopper' = [stopper EXCEPT ![k].mode = "deleted"]
  /\ rows' = rows \ stopper[k].of
  /\ UNCHANGED <<starts, held, socket, session, signal, active, listing>>

(* ... and the front hears the answer. *)
StopAnswered(k) ==
  /\ stopper[k].mode \in {"stop", "deleted", "all"}
  /\ stopper[k].todo = {}
  /\ active' = active \ stopper[k].of
  /\ stopper' = [stopper EXCEPT ![k] = IdleStopper]
  /\ UNCHANGED <<rows, starts, held, socket, session, signal, listing>>

(* delete_host: the rows go by ON DELETE CASCADE, the registry is not      *)
(* consulted.                                                              *)
HostDeleted ==
  /\ rows # {}
  /\ rows' = {}
  /\ UNCHANGED <<starts, held, socket, session, signal, stopper, active, listing>>

(* refreshActive when the dialog opens: read, then apply. *)
ListActive ==
  /\ listing.state = "idle"
  /\ rows # {}
  /\ listing' = [state |-> "read", ids |-> Active]
  /\ UNCHANGED <<rows, starts, held, socket, session, signal, stopper, active>>

ListApplied ==
  /\ listing.state = "read"
  /\ active' = listing.ids
  /\ listing' = NotListing
  /\ UNCHANGED <<rows, starts, held, socket, session, signal, stopper>>

---------------------------------------------------------------------------
(* The listener task returns when it sees the stop signal, or when accept  *)
(* fails; for -R the server stops listening when the session is gone.      *)
ListenerEnds(w) ==
  /\ socket[w] = "up"
  /\ \/ Kinds(w) = "local" /\ signal[w] = "stop"
     \/ Kinds(w) = "remote" /\ session[w] \in {"dead", "closed"}
  /\ socket' = [socket EXCEPT ![w] = "down"]
  /\ UNCHANGED <<rows, starts, held, session, signal, stopper, active, listing>>

AcceptFails(w) ==
  /\ socket[w] = "up"
  /\ Kinds(w) = "local"
  /\ socket' = [socket EXCEPT ![w] = "down"]
  /\ UNCHANGED <<rows, starts, held, session, signal, stopper, active, listing>>

(* The transport is lost; nobody watches it. *)
SessionDies(w) ==
  /\ session[w] = "up"
  /\ session' = [session EXCEPT ![w] = "dead"]
  /\ UNCHANGED <<rows, starts, held, socket, signal, stopper, active, listing>>

---------------------------------------------------------------------------
(* What the user may do; a lock screen keeps these out. *)
FwdClick == \/ \E w \in Start : StartForward(w)
            \/ \E k \in UserStopper, f \in Fwd : StopForward(k, f) \/ DeleteForward(k, f)
            \/ HostDeleted
            \/ ListActive

StartStep(w) == \/ StartFails(w)
                \/ StartBinds(w)
                \/ StartInserts(w)
                \/ StartAnswered(w)

StopperStep(k) == \/ \E w \in Start : StopNext(k, w)
                  \/ RowDeleted(k)
                  \/ StopAnswered(k)

(* What runs whether or not anybody watches. *)
FwdWork == \/ \E w \in Start : \/ StartStep(w)
                               \/ ListenerEnds(w)
                               \/ AcceptFails(w)
                               \/ SessionDies(w)
           \/ \E k \in Stopper : StopperStep(k)
           \/ ListApplied

FwdNext == FwdClick \/ FwdWork \/ \E k \in Stopper : StopAll(k)

FwdSpec == FwdInit /\ [][FwdNext]_fwdVars

(* Commands are answered (connecting has a timeout), tasks are polled. *)
FwdFairness == /\ \A w \in Start : /\ WF_fwdVars(StartStep(w))
                                   /\ WF_fwdVars(ListenerEnds(w))
               /\ \A k \in Stopper : WF_fwdVars(StopperStep(k))
               /\ WF_fwdVars(ListApplied)

FwdFairSpec == FwdSpec /\ FwdFairness

---------------------------------------------------------------------------
FwdTypeOK ==
  /\ rows \in SUBSET Fwd
  /\ starts \in [Start -> {"unused", "connecting", "bound", "inserted", "over"}]
  /\ held \in SUBSET Start
  /\ socket \in [Start -> {"down", "up"}]
  /\ session \in [Start -> {"none", "up", "dead", "closed"}]
  /\ signal \in [Start -> {"live", "stop", "dropped"}]
  /\ stopper \in [Stopper -> [mode : {"idle", "stop", "delete", "deleted", "all"},
                              of : SUBSET Fwd, todo : SUBSET Start]]
  /\ active \in SUBSET Fwd
  /\ listing \in [state : {"idle", "read"}, ids : SUBSET Fwd]

(* A listening socket can be stopped: its start call is about to put it in *)
(* the registry, it is there, somebody took it out and is stopping it, or  *)
(* the insert of another start of the same row dropped its handle.         *)
ListenersReachable ==
  \A w \in Start : socket[w] = "up" =>
    \/ starts[w] = "bound"
    \/ w \in held
    \/ signal[w] \in {"stop", "dropped"}
    \/ \E k \in Stopper : w \in stopper[k].todo

(* Two starts of one row may both pass the registry check, and the insert  *)
(* of the second drops the handle of the first without a signal.  Because  *)
(* both want one port this costs a listener only when the listener of the  *)
(* inserting call has itself ended already, between its bind and insert.   *)
OverwriteSparesListener ==
  [][\A v \in Start : signal[v] # "dropped" /\ signal'[v] = "dropped" =>
       \/ socket[v] = "down"
       \/ \E w \in Start : /\ RowOf[w] = RowOf[v] /\ starts[w] = "bound"
                           /\ socket[w] = "down"]_fwdVars

(* A stopped or deleted forward gives its port back: once a stop, delete   *)
(* or stop-all call runs, the workers it took out stop listening, although *)
(* the call itself answers before they do.                                 *)
StopFreesPort ==
  \A k \in Stopper, w \in Start :
    (w \in stopper[k].todo) ~> (socket[w] = "down")

---------------------------------------------------------------------------
(* What a comment says and the code does not keep (see the findings).      *)

(* "Stop the runtime worker first so we don't leak a listening socket":    *)
(* when delete_port_forward is done, the registry holds no worker of the   *)
(* row it removed.                                                         *)
DeletedIsStopped ==
  \A k \in Stopper, w \in held :
    stopper[k].mode = "deleted" => RowOf[w] \notin stopper[k].of
===========================================================================
