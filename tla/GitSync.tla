------------------------------ MODULE GitSync ------------------------------
(***************************************************************************)
(* Synchronisation of the vault through a Git branch: push_now and         *)
(* pull_now of sync_git/mod.rs, the row of store/sync_state.rs, and the    *)
(* timer, the buttons and the pull at start-up of useSyncStore.ts,         *)
(* GitSyncCard and MainLayout.  On one machine nothing keeps a push and a  *)
(* pull apart: both work in one clone and on one database, and the store's *)
(* status only greys buttons until the settings are opened again.          *)
(*                                                                         *)
(* A vault is the set of its items.  Every encryption of a vault is a new  *)
(* blob (fresh salt and nonce), so a file differs from HEAD exactly when a *)
(* push has written it since (`dirty`).  The branch only grows, because    *)
(* git refuses a push that is not a fast-forward; commit n of it is        *)
(* branch[n], and local commits no push delivered are one pending commit.  *)
(* A wrong password, a lost network, a locked index are PushFails and      *)
(* PullFails; a keychain that cannot be read is CallUnstarted.  The store  *)
(* knows of the row and of the password by its last hydrate(); a store     *)
(* that fails to read its rows again after an edit is left to Inventory.   *)
(* The tables are read, emptied and filled one by one in the code, one     *)
(* step each here: the database between Wipe and Fill stands for           *)
(* every partly filled one.  Bound: a machine has one push and one pull in *)
(* flight at most, where the code lets each new call start another.        *)
(***************************************************************************)
EXTENDS Naturals, Sequences

CONSTANTS Device,             \* machines that synchronise with the branch
          Item,               \* what the vault exports; each created once
          Watched,            \* those not port forwards, which no store watches
          MaxCommits          \* bound on the length of the branch

ASSUME MaxCommitsAssumption == MaxCommits \in Nat
ASSUME WatchedAssumption == Watched \subseteq Item

VARIABLES
  branch,     \* contents of the commits of the remote branch, oldest first
  db,         \* each machine's database
  work,       \* its clone: sync-repo/
  push,       \* the push_now in flight
  pull,       \* the pull_now in flight
  last,       \* sync_state.last_remote_sha, 0 when NULL
  configured, \* whether the row sync_state exists
  due,        \* whether the 30 s timer of schedulePush runs
  armed,      \* the store's config?.enabled && hasPassword
  error,      \* whether sync_state.last_error is set
  alert,      \* whether the store's status is "error"
  created,    \* history: items a user ever created
  removed,    \* history: items its user deleted and no pull brought back
  unread,     \* history: the clone stands at a commit the database never took
  overlapped  \* history: a push and a pull were once in flight together

front == <<due, configured, armed>>
signs == <<error, alert>>
history == <<created, removed, unread, overlapped>>
syncVars == <<branch, db, work, push, pull, last, signs, front, history>>

Vault == SUBSET Item
Clean(vault, base) == [repo |-> "clone", base |-> base, ahead |-> FALSE,
                       file |-> vault, dirty |-> FALSE]
NoRepo == [Clean({}, 0) EXCEPT !.repo = "absent"]
EmptyRepo == [Clean({}, 0) EXCEPT !.repo = "init"]
NoPush == [stage |-> "idle", snap |-> {}]
NoPull == [stage |-> "idle", seen |-> 0, fetched |-> 0, bundle |-> {}, startup |-> FALSE]

SyncInit == /\ branch = <<>>
            /\ db = [d \in Device |-> {}]
            /\ work = [d \in Device |-> NoRepo]
            /\ push = [d \in Device |-> NoPush]
            /\ pull = [d \in Device |-> NoPull]
            /\ last = [d \in Device |-> 0]
            /\ configured = [d \in Device |-> FALSE]
            /\ due = [d \in Device |-> FALSE]
            /\ armed = [d \in Device |-> FALSE]
            /\ error = [d \in Device |-> FALSE]
            /\ alert = [d \in Device |-> FALSE]
            /\ created = {}
            /\ removed = [d \in Device |-> {}]
            /\ unread = [d \in Device |-> FALSE]
            /\ overlapped = [d \in Device |-> FALSE]

---------------------------------------------------------------------------
(* The user edits the vault; a store that MainLayout watches calls         *)
(* schedulePush, which does nothing without a row and a password.          *)
Schedule(d, shown) == due' = [due EXCEPT ![d] = due[d] \/ (shown /\ armed[d])]

Create(d, i) ==
  /\ i \notin created
  /\ created' = created \cup {i}
  /\ db' = [db EXCEPT ![d] = db[d] \cup {i}]
  /\ Schedule(d, i \in Watched)
  /\ UNCHANGED <<branch, work, push, pull, last, signs, configured, armed,
                 removed, unread, overlapped>>

Delete(d, i) ==
  /\ i \in db[d]
  /\ removed' = [removed EXCEPT ![d] = removed[d] \cup {i}]
  /\ db' = [db EXCEPT ![d] = db[d] \ {i}]
  /\ Schedule(d, i \in Watched)
  /\ UNCHANGED <<branch, work, push, pull, last, signs, configured, armed,
                 created, unread, overlapped>>

(* hydrate() of the store, which may find no password, or fail.            *)
ReadState(d) ==
  \/ /\ \E known \in {FALSE, configured'[d]} : armed' = [armed EXCEPT ![d] = known]
     /\ alert' = [alert EXCEPT ![d] = error'[d]]
  \/ UNCHANGED <<armed, alert>>

(* sync_configure and sync_disable; the clone stays. *)
Configure(d) ==
  /\ ~armed[d]
  /\ configured' = [configured EXCEPT ![d] = TRUE]
  /\ UNCHANGED error
  /\ ReadState(d)
  /\ UNCHANGED <<branch, db, work, push, pull, last, due, history>>

Disable(d) ==
  /\ configured[d] \/ armed[d]
  /\ configured' = [configured EXCEPT ![d] = FALSE]
  /\ last' = [last EXCEPT ![d] = 0]
  /\ error' = [error EXCEPT ![d] = FALSE]
  /\ ReadState(d)
  /\ UNCHANGED <<branch, db, work, push, pull, due, history>>

(* The settings are opened. *)
OpenCard(d) ==
  /\ UNCHANGED <<configured, error>>
  /\ ReadState(d)
  /\ UNCHANGED <<branch, db, work, push, pull, last, due, history>>

(* The card asks for a missing password. *)
SavePassword(d) ==
  /\ configured[d]
  /\ ~armed[d]
  /\ armed' = [armed EXCEPT ![d] = TRUE]
  /\ UNCHANGED <<branch, db, work, push, pull, last, signs, due, configured, history>>

(* ensure_workdir: clone what is not a clone yet; an empty remote gives an *)
(* empty repository without origin, which the next call replaces.          *)
EnsureWorkdir(d) ==
  LET absent == work[d].repo # "clone"
      fresh == IF branch = <<>> THEN EmptyRepo ELSE Clean(branch[Len(branch)], Len(branch))
  IN /\ work' = [work EXCEPT ![d] = IF absent THEN fresh ELSE work[d]]
     /\ unread' = [unread EXCEPT ![d] = unread[d] \/ (absent /\ branch # <<>>)]

(* What the store shows of a call: busy, then idle or error. *)
Shows(d, failed) == alert' = [alert EXCEPT ![d] = failed]

(* set_last_pushed and set_last_pulled: no row, no effect.                 *)
Record(d, commit) ==
  /\ last' = [last EXCEPT ![d] = IF configured[d] THEN commit ELSE last[d]]
  /\ error' = [error EXCEPT ![d] = FALSE]
  /\ Shows(d, FALSE)

(* A call fails: set_error, which may fail itself, and the store's status. *)
Blame(d) ==
  /\ \E kept \in {error[d], configured[d]} : error' = [error EXCEPT ![d] = kept]
  /\ Shows(d, TRUE)

(* A call fails before it has started, because the keychain cannot be read *)
(* or the row is gone: only the store's status tells.                      *)
CallUnstarted(d) ==
  /\ armed[d]
  /\ Shows(d, TRUE)
  /\ due' \in {due, [due EXCEPT ![d] = FALSE]}
  /\ UNCHANGED <<branch, db, work, push, pull, last, error, configured, armed, history>>

---------------------------------------------------------------------------
(* push_now: the row is read and the clone prepared ...                    *)
PushStart(d) ==
  /\ push[d].stage = "idle"
  /\ armed[d]
  /\ configured[d]
  /\ Len(branch) < MaxCommits
  /\ push' = [push EXCEPT ![d] = [NoPush EXCEPT !.stage = "ready"]]
  /\ EnsureWorkdir(d)
  /\ Shows(d, FALSE)
  /\ overlapped' = [overlapped EXCEPT ![d] = overlapped[d] \/ pull[d].stage # "idle"]
  /\ UNCHANGED <<branch, db, pull, last, error, configured, armed, created, removed>>

ClickPush(d) == PushStart(d) /\ UNCHANGED due

(* ... the timer calls it, pull or no pull ...                             *)
TimerFires(d) ==
  /\ due[d]
  /\ due' = [due EXCEPT ![d] = FALSE]
  /\ PushStart(d)

(* ... or finds the store without a row or a password.                     *)
TimerLapses(d) ==
  /\ due[d]
  /\ ~armed[d]
  /\ due' = [due EXCEPT ![d] = FALSE]
  /\ UNCHANGED <<branch, db, work, push, pull, last, signs, configured, armed, history>>

(* vex::snapshot *)
Snapshot(d) ==
  /\ push[d].stage = "ready"
  /\ push' = [push EXCEPT ![d] = [stage |-> "snapped", snap |-> db[d]]]
  /\ UNCHANGED <<branch, db, work, pull, last, signs, front, history>>

(* tokio::fs::write(vault.enc) *)
WriteVault(d) ==
  /\ push[d].stage = "snapped"
  /\ push' = [push EXCEPT ![d].stage = "written"]
  /\ work' = [work EXCEPT ![d].file = push[d].snap, ![d].dirty = TRUE]
  /\ UNCHANGED <<branch, db, pull, last, signs, front, history>>

(* git add, diff and commit; with nothing staged the push is over.         *)
Commit(d) ==
  /\ push[d].stage = "written"
  /\ IF work[d].dirty
       THEN /\ push' = [push EXCEPT ![d].stage = "committed"]
            /\ work' = [work EXCEPT ![d].ahead = TRUE, ![d].dirty = FALSE]
            /\ UNCHANGED alert
       ELSE /\ push' = [push EXCEPT ![d] = NoPush]
            /\ Shows(d, FALSE)
            /\ UNCHANGED work
  /\ UNCHANGED <<branch, db, pull, last, error, front, history>>

(* Mutant: a push of a HEAD that diverged is forced. *)
ForcedPush(d) ==
  LET new == work[d].ahead
  IN /\ push[d].stage = "committed"
     /\ new => Len(branch) < MaxCommits
     /\ branch' = IF new THEN Append(branch, work[d].file) ELSE branch
     /\ work' = [work EXCEPT ![d].base = Len(branch'), ![d].ahead = FALSE]
     /\ push' = [push EXCEPT ![d].stage = "pushed"]
     /\ UNCHANGED <<db, pull, last, signs, front, history>>

(* Mutant: a push always counts a commit, even when a pull has reset the  *)
(* clone after the commit.                                                 *)
PushCounts(d) ==
  LET new == work[d].ahead
  IN /\ push[d].stage = "committed"
     /\ work[d].base = Len(branch)
     /\ new => Len(branch) < MaxCommits
     /\ branch' = IF new THEN Append(branch, work[d].file) ELSE branch
     /\ work' = [work EXCEPT ![d].base = work[d].base + 1, ![d].ahead = FALSE]
     /\ push' = [push EXCEPT ![d].stage = "pushed"]
     /\ UNCHANGED <<db, pull, last, signs, front, history>>

(* git push of a HEAD that descends from the remote's.                     *)
Push(d) ==
  LET new == work[d].ahead
  IN /\ push[d].stage = "committed"
     /\ work[d].base = Len(branch)
     /\ new => Len(branch) < MaxCommits
     /\ branch' = IF new THEN Append(branch, work[d].file) ELSE branch
     /\ work' = [work EXCEPT ![d].base = Len(branch'), ![d].ahead = FALSE]
     /\ push' = [push EXCEPT ![d].stage = "pushed"]
     /\ UNCHANGED <<db, pull, last, signs, front, history>>

(* Mutant: the refusal is not kept. *)
PushRefusedQuietly(d) ==
  /\ push[d].stage = "committed"
  /\ work[d].base # Len(branch)
  /\ push' = [push EXCEPT ![d] = NoPush]
  /\ UNCHANGED <<branch, db, work, pull, last, signs, front, history>>

(* git refuses: another machine has pushed since. *)
PushRefused(d) ==
  /\ push[d].stage = "committed"
  /\ work[d].base # Len(branch)
  /\ push' = [push EXCEPT ![d] = NoPush]
  /\ Blame(d)
  /\ UNCHANGED <<branch, db, work, pull, last, front, history>>

(* head_sha and set_last_pushed *)
RecordPushed(d) ==
  /\ push[d].stage = "pushed"
  /\ push' = [push EXCEPT ![d] = NoPush]
  /\ Record(d, work[d].base)
  /\ UNCHANGED <<branch, db, work, pull, front, history>>

PushFails(d) ==
  /\ push[d].stage # "idle"
  /\ push' = [push EXCEPT ![d] = NoPush]
  /\ Blame(d)
  /\ UNCHANGED <<branch, db, work, pull, last, front, history>>

---------------------------------------------------------------------------
(* pull_now: the row is read, last_remote_sha with it.                     *)
PullStart(d, startup) ==
  /\ configured[d]
  /\ pull' = [pull EXCEPT ![d] = [NoPull EXCEPT !.stage = "ready", !.seen = last[d],
                                                !.startup = startup]]
  /\ Shows(d, FALSE)
  /\ EnsureWorkdir(d)

ClickPull(d) ==
  /\ pull[d].stage = "idle"
  /\ armed[d]
  /\ PullStart(d, FALSE)
  /\ overlapped' = [overlapped EXCEPT ![d] = overlapped[d] \/ push[d].stage # "idle"]
  /\ UNCHANGED <<branch, db, push, last, error, front, created, removed>>

(* git fetch; the remote's head may be the commit of the row.              *)
Fetch(d) ==
  /\ pull[d].stage = "ready"
  /\ branch # <<>>
  /\ pull[d].seen # Len(branch)
  /\ pull' = [pull EXCEPT ![d].stage = "fetched", ![d].fetched = Len(branch)]
  /\ UNCHANGED <<branch, db, work, push, last, signs, front, history>>

FetchFindsNothing(d) ==
  /\ pull[d].stage = "ready"
  /\ branch = <<>>
  /\ pull' = [pull EXCEPT ![d] = NoPull]
  /\ Blame(d)
  /\ UNCHANGED <<branch, db, work, push, last, front, history>>

UpToDate(d) ==
  /\ pull[d].stage = "ready"
  /\ branch # <<>>
  /\ pull[d].seen = Len(branch)
  /\ pull' = [pull EXCEPT ![d] = NoPull]
  /\ Shows(d, FALSE)
  /\ UNCHANGED <<branch, db, work, push, last, error, front, history>>

(* git reset --hard FETCH_HEAD *)
Reset(d) ==
  LET n == pull[d].fetched
  IN /\ pull[d].stage = "fetched"
     /\ pull' = [pull EXCEPT ![d].stage = "reset"]
     /\ work' = [work EXCEPT ![d] = [Clean(branch[n], n) EXCEPT !.repo = work[d].repo]]
     /\ unread' = [unread EXCEPT ![d] = TRUE]
     /\ UNCHANGED <<branch, db, push, last, signs, front, created, removed, overlapped>>

(* vault.enc is read, whoever wrote it, and decrypted.                     *)
ReadVault(d) ==
  /\ pull[d].stage = "reset"
  /\ pull' = [pull EXCEPT ![d].stage = "read", ![d].bundle = work[d].file]
  /\ UNCHANGED <<branch, db, work, push, last, signs, front, history>>

(* apply_bundle, Replace: the tables are emptied ...                       *)
Wipe(d) ==
  /\ pull[d].stage = "read"
  /\ pull' = [pull EXCEPT ![d].stage = "wiped"]
  /\ db' = [db EXCEPT ![d] = {}]
  /\ UNCHANGED <<branch, work, push, last, signs, front, history>>

(* ... and filled; no transaction holds the two together.                  *)
Fill(d) ==
  /\ pull[d].stage = "wiped"
  /\ pull' = [pull EXCEPT ![d].stage = "filled"]
  /\ db' = [db EXCEPT ![d] = db[d] \cup pull[d].bundle]
  /\ removed' = [removed EXCEPT ![d] = removed[d] \ pull[d].bundle]
  /\ unread' = [unread EXCEPT ![d] = FALSE]
  /\ UNCHANGED <<branch, work, push, last, signs, front, created, overlapped>>

(* set_last_pulled; after the pull at start-up the stores are refreshed,   *)
(* which MainLayout takes for edits.                                       *)
RecordPulled(d) ==
  /\ pull[d].stage = "filled"
  /\ pull' = [pull EXCEPT ![d] = NoPull]
  /\ Record(d, pull[d].fetched)
  /\ Schedule(d, pull[d].startup)
  /\ UNCHANGED <<branch, db, work, push, configured, armed, history>>

(* Mutant: the commit is recorded although it was not applied. *)
PullFailsRecorded(d) ==
  /\ pull[d].stage # "idle"
  /\ pull' = [pull EXCEPT ![d] = NoPull]
  /\ Record(d, pull[d].fetched)
  /\ UNCHANGED <<branch, db, work, push, front, history>>

PullFails(d) ==
  /\ pull[d].stage # "idle"
  /\ pull' = [pull EXCEPT ![d] = NoPull]
  /\ Blame(d)
  /\ UNCHANGED <<branch, db, work, push, last, front, history>>

---------------------------------------------------------------------------
(* The program is closed or killed at any point and starts again: the      *)
(* timer is lost, unless the first refresh of a store sets it, and a       *)
(* machine whose store finds the row and the password pulls.               *)
Restart(d) ==
  /\ push' = [push EXCEPT ![d] = NoPush]
  /\ \E known \in {FALSE, configured[d]} :
       /\ armed' = [armed EXCEPT ![d] = known]
       /\ \E timer \in {FALSE, known} : due' = [due EXCEPT ![d] = timer]
       /\ IF known
            THEN PullStart(d, TRUE)
            ELSE /\ pull' = [pull EXCEPT ![d] = NoPull]
                 /\ Shows(d, error[d])
                 /\ UNCHANGED <<work, unread>>
  /\ UNCHANGED <<branch, db, last, error, configured, created, removed, overlapped>>

UserStep(d) == \/ \E i \in Item : Create(d, i) \/ Delete(d, i)
               \/ Configure(d)
               \/ Disable(d)
               \/ OpenCard(d)
               \/ SavePassword(d)
               \/ ClickPush(d)
               \/ ClickPull(d)

PushStep(d) == \/ Snapshot(d)
               \/ WriteVault(d)
               \/ Commit(d)
               \/ Push(d)
               \/ PushRefused(d)
               \/ RecordPushed(d)

PullStep(d) == \/ Fetch(d)
               \/ FetchFindsNothing(d)
               \/ UpToDate(d)
               \/ Reset(d)
               \/ ReadVault(d)
               \/ Wipe(d)
               \/ Fill(d)
               \/ RecordPulled(d)

Mishap(d) == PushFails(d) \/ PullFails(d) \/ CallUnstarted(d) \/ Restart(d)

(* A machine that is not in Device delivers a vault: all that the others   *)
(* can see of its push.                                                    *)
PushElsewhere(vault) ==
  /\ Len(branch) < MaxCommits
  /\ branch' = Append(branch, vault)
  /\ created' = created \cup vault
  /\ UNCHANGED <<db, work, push, pull, last, signs, front, removed, unread, overlapped>>

DeviceStep(d) == \/ UserStep(d)
                 \/ TimerFires(d)
                 \/ TimerLapses(d)
                 \/ PushStep(d)
                 \/ PullStep(d)
                 \/ Mishap(d)

SyncNext == \/ \E d \in Device : DeviceStep(d)
            \/ \E vault \in Vault : PushElsewhere(vault)

SyncSpec == SyncInit /\ [][SyncNext]_syncVars

(* The runtimes poll what is ready, and the git processes they wait for    *)
(* end.                                                                    *)
SyncFairness == \A d \in Device :
  /\ WF_syncVars(TimerFires(d))
  /\ WF_syncVars(PushStep(d))
  /\ WF_syncVars(PullStep(d))

SyncFairSpec == SyncSpec /\ SyncFairness

---------------------------------------------------------------------------
Remote == IF branch = <<>> THEN {} ELSE branch[Len(branch)]
Commits == 0..MaxCommits
WorkRecord == [repo : {"absent", "init", "clone"}, base : Commits, ahead : BOOLEAN,
               file : Vault, dirty : BOOLEAN]
PushRecord == [stage : {"idle", "ready", "snapped", "written", "committed", "pushed"},
               snap : Vault]
PullRecord == [stage : {"idle", "ready", "fetched", "reset", "read", "wiped", "filled"},
               seen : Commits, fetched : Commits, bundle : Vault, startup : BOOLEAN]

SyncTypeOK == /\ branch \in Seq(Vault)
              /\ Len(branch) \in Commits
              /\ db \in [Device -> Vault]
              /\ work \in [Device -> WorkRecord]
              /\ push \in [Device -> PushRecord]
              /\ pull \in [Device -> PullRecord]
              /\ last \in [Device -> Commits]
              /\ configured \in [Device -> BOOLEAN]
              /\ due \in [Device -> BOOLEAN]
              /\ armed \in [Device -> BOOLEAN]
              /\ error \in [Device -> BOOLEAN]
              /\ alert \in [Device -> BOOLEAN]
              /\ created \in Vault
              /\ removed \in [Device -> Vault]
              /\ unread \in [Device -> BOOLEAN]
              /\ overlapped \in [Device -> BOOLEAN]

(* A push takes an item out of the remote vault only if the user of this   *)
(* machine deleted it: git refuses a push that has not seen the remote's   *)
(* last commit.  Three cases are exempt, and in them vaults are lost: the  *)
(* clone is fresh, a pull ended between its reset and the database, a push *)
(* and a pull overlapped.                                                  *)
PushKeepsTheRest ==
  [][\A d \in Device :
       (push[d].stage = "committed" /\ push'[d].stage = "pushed"
        /\ ~unread[d] /\ ~overlapped[d])
         => Remote \ Remote' \subseteq removed[d]]_syncVars

(* "a jour" tells the truth: when the row names the remote's last commit,  *)
(* the database has all of it but what its user deleted, whatever failures *)
(* and restarts came before, as long as no push and pull of this machine   *)
(* ran at the same time.                                                   *)
UpToDateMeansApplied ==
  \A d \in Device :
    (~overlapped[d] /\ last[d] # 0 /\ last[d] = Len(branch))
      => Remote \ removed[d] \subseteq db[d]

(* An edit on its way is delivered, or a failure shows in the settings     *)
(* (the status, at that moment), or a pull has replaced the vault, unless  *)
(* the sync is switched off, the settings are opened while the keychain    *)
(* gives no password, or the program is started again first.  (Or the      *)
(* bound is reached.)  An edit of a port forward does not set the timer: it *)
(* is on its way only once another edit does.                              *)
EditsAreShipped ==
  \A d \in Device, i \in Item :
    (due[d] /\ i \in db[d]) ~>
      (\/ i \in Remote \/ i \notin db[d] \/ alert[d] \/ ~configured[d] \/ ~armed[d]
       \/ pull[d].startup \/ Len(branch) = MaxCommits)

---------------------------------------------------------------------------
(* What the comments say and the code does not keep (see the findings).    *)

(* With changes not pushed yet and a remote that has changed, "on n'ecrase *)
(* pas": on a machine that has synchronised before, and one step at a      *)
(* time, a pull does not delete an item no commit has.                     *)
PullKeepsUnpushed ==
  [][\A d \in Device :
       (~overlapped[d] /\ last[d] # 0 /\ pull[d].stage = "read" /\ pull'[d].stage = "wiped")
         => db[d] \subseteq pull[d].bundle \cup UNION {branch[n] : n \in DOMAIN branch}]_syncVars
===========================================================================
