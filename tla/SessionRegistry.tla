-------------------------- MODULE SessionRegistry --------------------------
(***************************************************************************)
(* The backend half of a terminal session: the SessionManager map of       *)
(* ssh/manager.rs, the PTY driver task of ssh/pty.rs, and the commands of  *)
(* commands/sessions.rs; a local shell (commands/local_pty.rs) has the same*)
(* shape, its reader thread as driver, but is closed without waiting for   *)
(* that thread.  Three tasks live at once for every session: the driver    *)
(* that talks to the peer, the emit task that drains its output and        *)
(* announces the end, and any number of commands that looked the entry up. *)
(* In this and the other modules an operator commented "Mutant" is the     *)
(* next one with a mistake in it; no specification uses it.  It shows that *)
(* the properties would notice the mistake.                                *)
(***************************************************************************)
EXTENDS Naturals

CONSTANTS Conn,               \* one element per session ever opened (a UUID)
          Shell,              \* those of open_local_session
          MaxUsers            \* bound: SFTP commands at once on one entry

ASSUME ShellAssumption == Shell \subseteq Conn
ASSUME MaxUsersAssumption == MaxUsers \in Nat

VARIABLES
  entries,    \* ids present in SessionManager.inner
  driver,     \* the PTY driver task of each session
  emitter,    \* the task that forwards output and announces the end
  closing,    \* close_session calls that took the entry and still wait
  users       \* SFTP commands that hold the entry, or wait for its Mutex

backend == <<entries, driver, emitter, closing, users>>

RegTypeOK == /\ entries \in SUBSET Conn
             /\ driver \in [Conn -> {"none", "running", "killed", "stopped"}]
             /\ emitter \in [Conn -> {"none", "reading", "done"}]
             /\ closing \in SUBSET Conn
             /\ users \in [Conn -> 0..MaxUsers]

RegInit == /\ entries = {}
           /\ driver = [c \in Conn |-> "none"]
           /\ emitter = [c \in Conn |-> "none"]
           /\ closing = {}
           /\ users = [c \in Conn |-> 0]

---------------------------------------------------------------------------
(* open_ssh_session after the chain is connected: the PTY driver is        *)
(* spawned, the entry is inserted, the emit task is spawned.               *)
Register(c) ==
  /\ driver[c] = "none"
  /\ entries' = entries \cup {c}
  /\ driver' = [driver EXCEPT ![c] = "running"]
  /\ emitter' = [emitter EXCEPT ![c] = "reading"]
  /\ UNCHANGED <<closing, users>>

(* The driver leaves its loop on Eof, Close, a lost transport or a failed  *)
(* write, a shell's reader on end of file; dropping its sender is what the *)
(* emit task will see.                                                     *)
StreamEnds(c) ==
  /\ driver[c] \in {"running", "killed"}
  /\ driver' = [driver EXCEPT ![c] = "stopped"]
  /\ UNCHANGED <<entries, emitter, closing, users>>

(* PtyChannel is dropped with the entry, which aborts the driver task; the  *)
(* reader of a LocalSession is a thread and goes on.                       *)
Drop(c) == [driver EXCEPT ![c] = IF @ = "running" /\ c \notin Shell THEN "killed" ELSE @]

(* Mutant: the emit task leaves the entry in the map. *)
AnnounceKeepsEntry(c) ==
  /\ emitter[c] = "reading"
  /\ driver[c] = "stopped"
  /\ emitter' = [emitter EXCEPT ![c] = "done"]
  /\ UNCHANGED <<entries, driver, closing, users>>
(* Mutant: only the task that removes the entry announces. *)
AnnounceIfKept(c) ==
  /\ c \in entries
  /\ emitter[c] = "reading"
  /\ driver[c] = "stopped"
  /\ emitter' = [emitter EXCEPT ![c] = "done"]
  /\ entries' = entries \ {c}
  /\ UNCHANGED <<driver, closing, users>>

(* The emit task: rx is drained and closed, so it removes the entry (if    *)
(* close_session has not done so) and emits session-closed-{id}.           *)
Announce(c) ==
  /\ emitter[c] = "reading"
  /\ driver[c] = "stopped"
  /\ emitter' = [emitter EXCEPT ![c] = "done"]
  /\ entries' = entries \ {c}
  /\ UNCHANGED <<driver, closing, users>>

(* Mutant: the driver of an entry nobody holds is not aborted. *)
EmitFailsDetached(c) ==
  /\ emitter[c] = "reading"
  /\ driver[c] # "stopped"
  /\ emitter' = [emitter EXCEPT ![c] = "done"]
  /\ entries' = entries \ {c}
  /\ UNCHANGED <<driver, closing, users>>

(* The emit task fails to deliver a chunk: it removes the entry and        *)
(* announces the end although the driver has not ended.  The driver goes   *)
(* with the entry, unless a command still holds it.                        *)
EmitFails(c) ==
  /\ emitter[c] = "reading"
  /\ driver[c] # "stopped"
  /\ emitter' = [emitter EXCEPT ![c] = "done"]
  /\ entries' = entries \ {c}
  /\ driver' = IF c \in entries /\ users[c] = 0 THEN Drop(c) ELSE driver
  /\ UNCHANGED <<closing, users>>

(* Mutant: close_session drops the entry and does not wait. *)
TakeEntryOnly(c) ==
  /\ c \in entries
  /\ entries' = entries \ {c}
  /\ UNCHANGED <<driver, emitter, closing, users>>

(* close_session, first half: remove the id from the map.  An id that is   *)
(* not there is answered Ok at once and nothing changes.               *)
TakeEntry(c) ==
  /\ c \in entries
  /\ entries' = entries \ {c}
  /\ closing' = closing \cup {c}
  /\ UNCHANGED <<driver, emitter, users>>

(* Mutant: the entry is looked up again after its removal. *)
StopDriverByLookup(c) ==
  /\ c \in closing \cap entries
  /\ users[c] = 0
  /\ StreamEnds(c)

(* close_session, second half: once every command queued on the entry's    *)
(* Mutex has let go, Cmd::Close makes the driver leave its loop ...        *)
StopDriver(c) ==
  /\ c \in closing \ Shell
  /\ users[c] = 0
  /\ StreamEnds(c)

(* ... and the call returns when the driver task has been joined.          *)
CloseReturns(c) ==
  /\ c \in closing \ Shell
  /\ users[c] = 0
  /\ driver[c] = "stopped"
  /\ closing' = closing \ {c}
  /\ UNCHANGED <<entries, driver, emitter, users>>

(* local_close, second half: the child is killed and reaped, and the call  *)
(* returns; the reader thread is left to find its end of file.             *)
KillShell(c) ==
  /\ c \in closing \cap Shell
  /\ driver' = [driver EXCEPT ![c] = IF @ = "running" THEN "killed" ELSE @]
  /\ closing' = closing \ {c}
  /\ UNCHANGED <<entries, emitter, users>>

(* An SFTP command looks the entry up, then holds its Mutex across the     *)
(* network round trip; later ones queue behind it.                         *)
SftpBegins(c) ==
  /\ c \in entries \ Shell
  /\ users[c] < MaxUsers
  /\ users' = [users EXCEPT ![c] = @ + 1]
  /\ UNCHANGED <<entries, driver, emitter, closing>>

(* The last to hold an entry that has left the map drops it.               *)
SftpEnds(c) ==
  /\ users[c] > 0
  /\ users' = [users EXCEPT ![c] = @ - 1]
  /\ driver' = IF users[c] = 1 /\ c \notin entries \cup closing THEN Drop(c) ELSE driver
  /\ UNCHANGED <<entries, emitter, closing>>

RegNext == \E c \in Conn :
  \/ Register(c)
  \/ StreamEnds(c)
  \/ Announce(c)
  \/ EmitFails(c)
  \/ TakeEntry(c)
  \/ StopDriver(c)
  \/ CloseReturns(c)
  \/ KillShell(c)
  \/ SftpBegins(c)
  \/ SftpEnds(c)

(* The reader of a dead shell: its terminal was hung up with the child.    *)
(* An aborted task: the runtime drops it.                                  *)
ReaderEnds(c) == driver[c] = "killed" /\ StreamEnds(c)

(* The runtime polls every ready task; an SFTP request is answered or dies *)
(* with the transport, which the keepalive of ssh/client.rs detects.  Two  *)
(* waits are outside the model and assumed to end: a driver's write to a   *)
(* peer that leaves the channel's window shut, before which it does not    *)
(* see Cmd::Close, and a write to a child that does not read, during which *)
(* local_send_input keeps the Mutex that local_close wants.                *)
RegFairness == \A c \in Conn :
  /\ WF_backend(Announce(c))
  /\ WF_backend(StopDriver(c))
  /\ WF_backend(CloseReturns(c))
  /\ WF_backend(KillShell(c))
  /\ WF_backend(ReaderEnds(c))
  /\ WF_backend(SftpEnds(c))

RegSpec == RegInit /\ [][RegNext]_backend
RegFairSpec == RegSpec /\ RegFairness

---------------------------------------------------------------------------
(* A running driver always belongs to somebody: its id is still in the map *)
(* and a command can close it, a close_session call has taken it and is    *)
(* going to stop it, or an SFTP command holds the entry and will drop it.  *)
(* No interleaving of the peer hanging up, close_session, SFTP commands    *)
(* and the emit task leaves a PTY task running unreachable.  One thing     *)
(* does: the reader of a shell whose output could not be delivered.        *)
NoUnreachableDriver ==
  \A c \in Conn : driver[c] = "running" =>
    \/ c \in entries \cup closing
    \/ users[c] > 0
    \/ c \in Shell /\ emitter[c] = "done"

(* Of an ssh session whose end was announced nothing stays behind, whoever *)
(* held its entry by then, and even if its output could not be delivered.  *)
AnnouncedIsOver ==
  \A c \in Conn \ Shell : (emitter[c] = "done") ~> (driver[c] = "stopped")

(* Every session whose stream ended, whose driver was told to end, or that *)
(* left the map is eventually announced to the front: whether the peer     *)
(* hung up, it was closed, or both at once.                                *)
EndIsAnnounced ==
  \A c \in Conn :
    (driver[c] # "none" /\ (driver[c] # "running" \/ c \notin entries)) ~> (emitter[c] = "done")

(* The session's life as SessionLifecycle sees it. *)
PhaseOf(c) == IF driver[c] = "none" THEN "unused"
              ELSE IF driver[c] # "stopped"
                THEN IF emitter[c] = "done" THEN "given up" ELSE "open"
                ELSE IF emitter[c] = "done" THEN "announced" ELSE "ended"

Lifecycle == INSTANCE SessionLifecycle
               WITH phase <- [c \in Conn |-> PhaseOf(c)], reachable <- entries

(* SessionRegistry implements SessionLifecycle. *)
LifecycleSpec == Lifecycle!Spec
===========================================================================
