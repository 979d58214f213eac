# A TLA+ model of Termius v2

The repository is a desktop SSH client: a Tauri program whose backend
(`src-tauri/src`, Rust, tokio) holds sessions, transfers, forwards, a SQLite
database and a Git synchronisation of the vault, and whose front end (`src`,
React, zustand stores) drives it through IPC commands and listens to events.
Almost every operation is asynchronous on both sides: a store function reads its
state, awaits an IPC call that takes seconds, and writes; a command looks
something up, releases the lock, talks to a server, and registers the result.
This directory models the parts where that matters, checks them with TLC on
small instances, and proves the main invariants with TLAPS for every instance.

Paths below are relative to the root of the repository.

## 1. Inventory

### Backend

| Component | State | Operations | Talks to |
|---|---|---|---|
| Session registry (`ssh/manager.rs`, `ssh/pty.rs`, `commands/sessions.rs`, `local_pty/`, `commands/local_pty.rs`) | map id → entry, each entry behind its own async Mutex; one driver task and one emit task per session | open ssh / local session, send input, resize, close; SFTP commands borrow the entry | emits `session-data-*`, `session-closed-*` to the front |
| SSH connection (`ssh/client.rs`, ProxyJump in `commands/sessions.rs`) | russh handle, remote-forward routes | connect, authenticate (key, agent, password), jump chain with cycle check | known_hosts, keychain |
| Host key verification (`store/known_hosts.rs`) | rows (host, port, key type, key) | verify or record on first use | database |
| SFTP and transfers (`sftp/`, `commands/sftp.rs`) | cancel flags by transfer id | list, upload, download, cancel | emits `transfer-progress-*`, `transfer-done-*` |
| Remote editing (`edit/`, `commands/edit.rs`) | registry of watched files | open, poll and upload, stop | SFTP of the session |
| Port forwards (`port_forward/`, `commands/port_forwards.rs`) | `ForwardRegistry`: row id → running forward; listener tasks | start, stop, stop all, delete, list active | own SSH sessions |
| Database (`store/*.rs`) | hosts, groups, tags, identities, keys, snippets, forwards, known hosts, command history, sync state | CRUD with foreign keys | everything |
| Vault export (`vault_export/`) | none | snapshot, encrypt, decrypt, apply in Merge or Replace mode | database |
| Git sync (`sync_git/`, `commands/sync_git.rs`, `store/sync_state.rs`) | workdir clone, sync state row, token in the keychain | configure, test, push, pull, disable | git subprocess, vault export |
| PIN vault (`vault/mod.rs`) | PIN hash, a row of `settings` | set, change, verify, disable | database |
| Command capture (`command_capture.rs`, `store/command_history.rs`) | input buffer by session | feed, forget, list | database |
| Settings (`store/settings.rs`) | table `settings` | get all, set one key | database |
| Pure algorithms: ssh_config import, snippets, SOCKS5, key generation | none or files | parse, substitute, hand-shake, generate | – |

### Front end

| Component | State | Operations | Talks to |
|---|---|---|---|
| Tabs (`useSessionsStore.ts`, `SessionPane`, `SplitLayout`, `TerminalView`) | list of tabs: status, layout tree, broadcast groups; event listeners of mounted views | openTab, reconnect, splitPane, closePane, closeTab, markClosed, setSplitRatio, maybeAutoReconnect, restoreClosedTab | session commands, `session-closed-*` |
| Forwards (`useForwardsStore.ts`, `PortForwardsDialog`) | rows, `active` set | refreshActive, start, stop, remove | forward commands |
| Vault lock (`useVaultStore.ts`, idle timer of `MainLayout`, `UnlockOverlay`, `SecuritySection`) | locked, hasMaster, the pad, the PIN dialogs | hydrate, refresh, lock, unlock, set, change and disable a PIN | closeTab, stop_all, vault commands |
| Sync (`useSyncStore.ts`, `GitSyncCard`) | status, debounce timer | push, pull, schedulePush | sync commands |
| File browser (`SftpView`, `FilePane`, `TransferPanel`, `useTransfersStore.ts`) | two panes (path, rows, selection, dialog), clipboard, transfers and their listeners | list, create, rename, delete, drag, copy, paste, cancel, clear | SFTP and local-file commands, `transfer-*` |
| Hosts and what they refer to (`ServerList`, `HostFormDialog`, `Sidebar`, `KeysSection`, `IdentitiesSection`, pickers, five stores) | lists of rows, forms | refresh, create, save, delete, move, link | CRUD commands |
| Snippets and history (`SnippetsPanel`, `SnippetVariablesDialog`, `CommandHistoryDialog`, `lib/activeTerminal.ts`) | a run under way, the dialogs | run, render, send, list, replay, clear | session and history commands |
| Settings and start-up (`useSettingsStore.ts`, `MainLayout`, `RestoreSessionsDialog`, `WhatsNewDialog`, `CloseActionDialog`) | the settings, effects that run once they are read | hydrate, set, restore tabs, show what is new, close | settings commands |
| Other views | shortcuts, palette, themes | – | – |

### What is hard, and what must hold

* **Sessions.** Three parties may end a session (the peer, a close command, the
  emit task that sees the end), and an SFTP command may hold the entry. No PTY
  task may be lost, every end must be announced, and nothing of a session that was
  announced as over may stay.
* **Tabs.** Every store function spans an `await`; the tab may be closed,
  reconnected, split or dropped meanwhile, the reconnection timer may fire, and
  `session-closed` is not buffered. No session may run on without a pane by
  which it can be closed; a spinner must end; a layout must keep its shape.
* **Forwards.** `start` checks, connects for seconds, binds, then inserts. No
  listening socket may be left without an owner that can stop it, and a
  stopped one must return its port.
* **Lock.** `lock()` walks a list read once across awaits, while the user can
  still click. What it found must be closed behind the lock, and it must end.
* **Sync.** Push and pull share a workdir and a database without exclusion, and
  several machines share a branch. An edit may be lost only in the ways the
  design admits.
* **Split layouts.** The tree changes under a divider that is being dragged and
  under calls that wait for the backend. Panes keep their places, and only the
  divider in the hand moves.
* **File browser.** Listings, operations and transfers are answered in any order,
  under open dialogs. An operation acts on what the user picked, and what is shown
  is current.
* **Remote editing.** The editor writes while the watcher reads. What is saved
  while the file is watched must arrive whole.
* **Rows and forms.** Every store patches its list by hand after each command and
  refreshes now and then; forms are filled from lists that are being refreshed.
  Stores must agree with the tables in the end, and saving a form must change
  only what the user changed.
* **PIN.** Hash, length, `hasMaster` and `locked` are written apart. The program
  must start locked, and its user must be able to open it.
* **Settings.** Written without waiting, read once, and effects write them as soon
  as they are read. Choices and news must survive restarts.
* **Snippets and history.** The program guesses from the keys what the shell made of
  a line, and sends text to a terminal it chooses at the answer of a command. What is
  recorded must have been run.

`PROJECT.json` lists each hazard at its line, with the properties that would
catch it. Those without a property are those that do go wrong: the code has the
behaviour one would fear, the models have it too, and a property nearby names it as
an exception, which the note of the hazard says.

## 2. Modules

```
SessionLifecycle            what the backend promises about a session
   ^ refined by
SessionRegistry      Forwards      RemoteEdit
   ^ extended by        ^    (composed by MCBackend  <-- BackendProofs)
SessionTabs             |                            <-- SessionTabsProofs
   ^                    |
   +---- VaultLock -----+                            <-- VaultLockProofs

Inventory                                            <-- InventoryProofs
PinLock, Launch, Commands (with it, MCScreens)       <-- ScreensProofs
Files                                                <-- FilesProofs
SplitPanes (with it, MCViews)                        <-- ViewsProofs
GitSync                                              <-- GitSyncProofs

MCBackend = SessionRegistry | Forwards | RemoteEdit
MCViews   = Files | SplitPanes
MCScreens = Inventory | PinLock | Launch | Commands
```

Modules that share state are composed by extension (SessionTabs calls the
registry's actions, VaultLock those of SessionTabs and of Forwards). The three
modules with a bar hold components that share none: a behaviour is one of a
single component, chosen by the variable `unit` at the start, so their states
add up instead of multiplying, and one run asks about all of them.

Each `MC*` module gives a specification small constants, each `.cfg` is one run;
`GitSync` needs no MC module, its constants are plain sets. An operator whose comment
begins with "Mutant" is the next definition with a plausible mistake in it. No
specification uses it; replacing the definition by it makes TLC report the property
named in `PROJECT.json`, which shows that the property can tell the difference.

### SessionLifecycle and SessionRegistry

`entries` is the map of `SessionManager`; `driver[c]` the PTY task (for a local
shell, the reader thread); `emitter[c]` the task that drains the output and
announces the end; `closing` the close commands that took the entry out and
still wait; `users[c]` the SFTP commands that hold or wait for the Mutex.
`open_*_session` is `Register`; the driver's loop exits are `StreamEnds`; the
emit task's end is `Announce`, or `EmitFails` when a chunk cannot be delivered to
the window, which removes the entry and announces although the driver goes on;
`close_session` is `TakeEntry`, `StopDriver`, `CloseReturns`; `local_close` is
`TakeEntry`, `KillShell` (it kills the child and does not join the reader). `Drop` is
`Drop for PtyChannel`, which aborts the driver: it runs where the last holder of an
entry lets go, in `EmitFails` or, when an SFTP command still holds it, in `SftpEnds`.
A `LocalSession` has no such thing, so the reader of a shell goes on: the exception
of `NoUnreachableDriver`. `SessionLifecycle` keeps a phase per id and the set of
reachable ids: an id is used once and ends once, it is announced once, after its end
or because it is given up, and is never reachable again after it has been withdrawn.

### SessionTabs

One element of `Conn` stands for an open attempt, the pending leaf it puts in a
layout, and the session it yields. `status`, `pane` and `layout` are the fields
of `SessionTab`; a layout tree is the set of its leaves, because every decision
of the store depends on membership and on how many leaves there are, and
`moved` in `SetTab` stands for the views React must remount because their place
in the tree changed. A call goes through `clicked` (the handler is reading the
keychain), `sent`, `opened` (the backend has registered it, the answer is on its
way) and `settled`. `closer` holds the `closeTab` and `closePane` calls in
flight, with the leaves they read and the layout `closePane` remembers. `attach`
are mounted `TerminalView`s whose `listen()` has not resolved, `listening` those
that hear `session-closed`, `leaked` the listeners registered after their view
was gone. `crowded` is a history variable: the tabs on which two store functions
have overlapped, whose panes a reconnection of the timer dropped, or that an event of
another session closed. What a function does with a session it loses is not
recorded, so `OrphansNeedOverlap` says that the code loses none in any other way.

### Forwards

`starts[w]` is one `start_port_forward` call and the worker it makes; `held` the
registry; `socket`, `session` and `signal` the worker's listener, SSH session
and watch channel; `stopper` the stop, delete and stop-all calls; `active` and
`listing` the store's set and the `refreshActive` in flight. Overwriting an
entry of the registry drops its sender without sending `true`; the listener loop
(`port_forward/mod.rs:143-178`) only returns when the value is `true`, so the
worker goes on: that is signal `"dropped"`.

### VaultLock

Extends both. `locks[l]` is a `lock()` call: the tabs it read, those still to
close, and (as history) the workers that were running. It uses the closeTab and
stop-all actions of the other modules under its own name.

### GitSync

A machine `d` has a database `db[d]`, a clone `work[d]` (`sync-repo/`), the row
`sync_state` (`configured`, `last`, `error`) and the 30 s timer `due[d]`. `armed[d]`
and `alert[d]` are what the store knows of them since its last `hydrate()`, at the
start or when the settings are opened (`OpenCard`): whether there is a row and a
password, and whether its status shows an error. An edit of an item of `Watched` sets
the timer of an armed store; port forwards are exported too, but `MainLayout` does not
watch their store. `push[d]` and `pull[d]` are the `push_now` and `pull_now` in
flight, with what each has read: a push is `PushStart` (row and `ensure_workdir`),
`Snapshot`, `WriteVault`, `Commit` (add, diff, commit), `Push` or `PushRefused`,
`RecordPushed`; a pull is `PullStart`, `Fetch` or `UpToDate`, `Reset`, `ReadVault`,
`Wipe` and `Fill` (`apply_bundle` in Replace mode), `RecordPulled`. `PushFails` and
`PullFails` end either at any stage, as every `?` in the code can, and record the
error in the row; `CallUnstarted` is a command that cannot read the keychain and ends
before, without a record; `Restart` loses what is in flight and pulls. That a machine
has one push and one pull in flight at most is a bound. `branch` is the remote branch.
A clone is known by the commit it stands on (`base`), whether it has a commit of its
own on top (`ahead`), and the content of `vault.enc` (`file`, `dirty` when a push
wrote it after HEAD). `unread`, `overlapped` and `removed` are history: they name the
cases in which the design, or the code, loses data.

### SplitPanes

SessionTabs keeps a layout as the set of its leaves; here is the tree of one tab.
A layout is a function from the paths of its nodes (`SplitPath`, the turns taken
from the root) to the nodes: leaves, and splits with a ratio (in tenths) and the
placeholder they were made for, which gives the divider a name that outlives
changes of the tree: split `n` has placeholder `2n`, then session `2n + 1`. `status`
and `single` are the tab's status and its session. `SessionEnds` is the end of any
session on the screen, the one that `closePane` has just closed included, since its
listener is still there: it marks the whole tab closed, `Reconnect` or `AutoReconnect`
drop the layout, and `RedialResolves` or `RedialRejects` write the status again.
`SplitAt`, `ReplaceLeaf`, `RemoveLeaf`, `SetRatioAt` are the store's functions, which
walk the tree; here they say what becomes of every path. `MovedTo` is `removeLeaf`'s
`return second`: what stood beside the leaf moves up by one turn. `LeftOf` is the order
in which `collectLeaves` meets two leaves; `splits` and `closes` the
calls that wait, a close with the tree it read; `drag` the divider held, by the
path it had when the mouse went down; `group` is `broadcastGroups[tab]`.

### Files

`pane[s]` is the state of one `FilePane`: path, rows, selection and dialog. A path
is a sequence of names. `call` are the invokes in flight: a listing between its
request, its reading of the disk and its answer, or an operation. `Submit`,
`ConfirmDelete` and the drag, copy and paste actions make operations and
transfers, `Listed`, `OpDone` and `OpFails` apply answers. `xfer[t]` is a transfer
three times: its worker (`st`, `flag`), its row in the panel, and whether the
store's listener is registered (`heard`); a transfer that ends before is `lost`
for the panel. `picked` and `doubt` are history; `ReadEarlier` is the one case in which
a transfer-done puts a pane in doubt: the pane showed another directory, and had read,
not yet shown, this one.

### RemoteEdit

A content is the number of the save that wrote it, and a file has two halves, so
a file read while it is saved is a mixture. `task[e]` goes through
`open_remote_edit`, the wait, `Poll`, `ReadsHalf` and `Uploads` of the watcher;
`EditorSaves`, `EditorRemoves` and `EditorReplaces` are the editor's.

### Inventory

A behaviour is about one kind of row a host can refer to: groups and identities are
columns of the host, tags and keys link tables. `db` are the tables, `seen` the
stores, `form` the dialogs that can be open, `req` the store functions that await a
command: `asked`, then executed (`ok`), then applied. `ExecDelRow` and `ExecDelHost`
are the foreign keys (`SET NULL` and `CASCADE`). A refresh of the hosts that fails
sets `error`, for which `ServerList` draws a message instead of its list and of the
edit form over it: `drawn` follows, `Unmounted` and `Remounted` are the form going and
coming back, its own `isSubmitting` forgotten. `form[f].toggled` and `dubious` are
history: what the user changed in this opening, and which fields of the stores may be
behind the database, because an outdated answer wrote them, a refresh failed, or one
that a move or a deleted group calls for is pending.

### PinLock

`hash` and `savedLen` are the two rows that survive a restart, `hasPin`, `locked` and
`pinLen` what the front end believes. A vault command is `PinCheck` (what it verifies)
and `PinWrite`; the dialogs call it, then `set_setting`, then `refresh`, which
`OpenSecurity` calls too. `pad` is the unlock screen with its digits, its status and
the timers of failed attempts. `Restart` may happen between any two steps. `slips`
names the mishaps after which less is promised: each is set by the one step that its
name says, and forgotten when a restart, or a PIN that is set anew, makes it harmless.
`"unread"` is a `hydrate()` that failed; `"late"` is one whose answer comes after the
user has set a PIN and locked, and takes the screen away.

### Launch

`row` and `store` are the four settings that do more than decorate: restorable tabs,
automatic restoring, what the cross does, last seen version. `SetAll` changes the
store and leaves a command in `writes`; commands run in any order, or fail. `wish` is
what the user asked to remember, `told` the releases whose news were shown; `lost`,
`unread`, `skipped` and `emptied` are the cases the properties name. `Effects` are
those of `MainLayout` that run when the settings have been read, in their order.
`Only` is JavaScript's `filter`. `Restarted` loses what is in memory; a crash is one
that nobody asked for.

### Commands

A line is a sequence of characters, of which a snippet is one. What is typed is text,
a return, or one of four kinds of keys: Backspace, Ctrl-C, Ctrl-D, and the `"other"`
ones that the shell's line editor acts upon (arrows and their escape sequences, Tab).
`line[p]` is what the shell of pane `p` holds of its line; `ShellLines` is the shell, an
external program, which may do with an `"other"` key what it likes, recalling a line it
has run included. `draft[p]` is the buffer of `CommandCapture`, and `Fed` what `feed()`
makes of it; a write is `SendWrites`, then `SendFeeds`, then `Recorded`, which trims.
`stray` are the panes whose buffer may differ from the shell's line, from the step that
parts them to the one after which both are empty with nothing on its way, and `guessed`
what such a buffer has handed over. A snippet's run is `RunSnippet`, `Extracted`, perhaps
`ConfirmVars`, `Rendered`. `ActiveTerminal` is `resolveActiveTerminal`: it chooses among
`leaves`, the panes of the layouts, whether or not their sessions are `live`. Typing to
a broadcast group is left out.

## 3. Runs

| Run | Question | Instance | Result |
|---|---|---|---|
| `backend` | Does the registry implement `SessionLifecycle`, keep every driver reachable, announce every end and leave nothing of an announced ssh session? Can every listening socket be stopped, and does a stop free the port? Does what is saved in an editor arrive? | one ssh session and one shell, 2 SFTP users; 2 starts of one -L row, 1 stop call; 2 edits of one file, 3 saves | holds, 48 246 states |
| `tabs_leaks` | When can a session be left without a pane? | 3 shells, 1 tab, 1 close call | holds, 1.57 million states |
| `tabs_live` | The same with automatic reconnection; do spinners, close calls and the reconnection loop end? | 2 ssh sessions, 1 tab, 2 delays, 1 SFTP user | holds, 113 686 states |
| `views` | Do panes and dividers keep their places? Does the file browser act on what was picked and show what is there? | 3 splits or reconnections, 4 clicks; one directory and one file name on two sides, 2 invokes, 1 transfer | holds, 1.12 million states |
| `screens` | Do stores follow the tables and forms change only what was changed; is the program locked when it must be, and can it be opened; do choices and news survive; does the history hold what was run? | see Bounds | holds, 2.33 million states |
| `lock` | What does the lock screen guarantee, and does `lock()` end? | 1 ssh tab, 1 SFTP user, 1 -R forward, 1 lock | holds, 324 806 states |
| `sync` | Is "up to date" true, what can a push take from the remote, and does an edit get there? | 1 machine, a branch of 2 commits that others push to, 1 item | holds, 1.12 million states |
| `tabs_pending`, `forwards_deleted`, `lock_sessions`, `sync_unpushed`, `startup_prompt` | Is what a comment promises kept? | the smallest that shows it | violated, see below |

**Bounds.** `Conn` bounds the sessions ever opened. Two are the least with which an
answer can meet a tab that already has another session, three the least with which a
split layout survives the loss of a pane. One tab is enough because no store function
reads another tab. `MaxTries` is 2 where the loop is checked: a failure that continues
and a failure that ends it; the code has 4 delays. `MaxUsers` is 1 or 2: one command
holding the Mutex, one queueing; in `lock` it is 1, so that closing the session has to
wait for it. `MaxClicks` bounds handlers waiting for the keychain at once. Two
`Start`s are the least in which an insert overwrites another. Three saves let one come
before, one during and one after an upload; two edits of a file overwrite one another.

In `sync` the other machines are one action (`PushElsewhere`): all that a machine
can see of another is a new commit. Two commits let the branch move once before and
once after this machine has read it.

`views`: three splits make trees of up to four leaves, so that a divider has one above
and one below it; four clicks are enough to split twice, close a pane under a split,
and drag or reconnect. A reconnection uses one of the three. One file name and one
directory on each side give a row, a child and a parent; two invokes are the least
that can be answered out of order. `EDITED = {"remote"}` leaves the local side to
drag, copy and paste only (the two panes are one component), and `SCENES` keeps the
dialogs and the transfers in separate behaviours.

`screens`: Inventory has 2 hosts, 2 rows, 2 requests in flight and 3 clicks that ask:
one request to be outdated, one to outdate it, one to fill the form; a form brought
back by `ServerList` and submitted again, with both answers outstanding, needs more
clicks and is covered by the proofs only. PinLock has PINs of 4 and of 5 digits, 3
commands in flight and 3 calls, locks, failures or restarts. Launch has one open tab,
2 moves, releases 1 and 3 installed and news for 2 and 3. Commands has three panes in
two tabs, one of a host and one of local shells, 2 snippets of which one asks for
variables, 2 jobs and 3 turns: begin something, change the terminal, do something
else. A bound on what the user does never hides an interleaving of what is already on
its way.

For the properties that are proved (below) the bounds are no restriction at
all. Deadlock is not checked because a program with every bound used up and nobody
clicking really is at rest.

**Symmetry** is used for `Conn` in runs without liveness, and for the invokes of
`views`.

**Fairness.** Weak fairness of the tasks that tokio polls and of answers the
front awaits: emit task, close calls, opened calls, the edit watcher, the opening of a
local shell. Two places rest on more than the scheduler. `SftpEnds`: a request ends
because the keepalive (`ssh/client.rs:497-501`) turns a silent peer into an error.
`ReaderEnds`: killing the child hangs the terminal up, so the reader sees its end of
file. Nothing is assumed of an open call to an ssh server: no timeout bounds the
connection, and keepalives start after it, so `ConnectingEnds` and `AutoLoopEnds` except
the tab whose server never answers (`Unanswered`), which does stay connecting for ever.
Nor is a listener assumed to be registered in time (`ListenResolves`). Two waits are
outside the model and assumed to end: a driver's write to a peer that leaves the window
of the channel shut, and a write to a child that does not read, during which
`local_send_input` keeps the Mutex. In `sync` the timer runs, and the git processes that
push and pull wait for end; a process that hangs for ever is not modelled. The watcher's
steps are one fair action, of which an upload that fails is an outcome:
`SavesReachRemote` excepts it. There is no fairness for user actions, for peers hanging
up (`StreamEnds`), for servers, nor in `views` and `screens`, whose properties are
safety.

**Findings.** Five promises of comments are not kept by the code; each has a run
that shows how.

* `tabs_pending`: `closePane` writes a layout computed from the tab it read
  before awaiting close; if a split failed meanwhile its placeholder returns for
  ever (`useSessionsStore.ts:414-442` against the comment at 377-380).
* `forwards_deleted`: a start that is still connecting inserts its worker after
  `delete_port_forward` has stopped the row's.
* `lock_sessions`: an open call in flight when `lock()` reads the tabs registers
  its session behind the lock.
* `sync_unpushed`: a pull replaces the database although it holds edits that no
  push has delivered; nothing compares `last_pushed_at`.
* `startup_prompt`: when the settings have been read, the effect that saves the
  open tabs runs before the one that restores them, and writes the empty list over
  the snapshot. The prompt opens, and is given the new list.

Properties that hold say in their statement, by a named exception, where the code
does less than one would expect. An exception is set by the step of the code that it
names and, where the code recovers, cleared by the step that does; the comment over the
property lists them. The longest lists are the following.

* `NoUnreachableDriver`: the reader of a shell whose output could not be delivered.
* `OrphansNeedOverlap`: two store functions in flight on one tab; a reconnection of the
  timer that drops panes; the end of a session the tab no longer shows, heard by a
  listener that outlived its view. A session that ends before its view listens leaves
  its tab `open`: `session-closed` is not buffered.
* `PushKeepsTheRest`: the first push of a machine whose clone is fresh replaces a
  remote vault it never read; a pull that fails to decrypt has already moved the
  clone, so the next push is a fast-forward over it; a pull and a push in flight
  together exchange `vault.enc` through the workdir.
* `FreshUnlessInDoubt`: listings that were in flight together, a command or a listing
  that failed, a transfer that failed, was cancelled or ended unheard, and a
  transfer-done that comes between the reading and the showing of its directory
  (`ReadEarlier`).
* `PanesKeepPlaces`, `DividersStay`: an old layout written back (`WrittenBack`), a
  failed split that leaves one pane, which need not be the one the status names
  (`Reverted`), a split of a pane closed by then (`SplitLate`), a reconnection after
  any session of the tab has ended, a closed pane's included (`Redialled`), and a
  divider dragged by a path that has become another's (`drag.moved`).
* `StoresFollow`: a store last written by an outdated answer, one whose refresh failed,
  and references while the refresh after a move or a deleted group is pending.
* `OnlyToggledChange`: a save from a list that was not refreshed, outdated, replaced
  by another opening's answer, or being changed; from a form that `ServerList` brought
  back; and one that another command overtook.
* `StartsLocked`: `hydrate()` before it answers, after it failed, or when it comes late.
* `NeverLockedOut`: a PIN disabled while `lock()` is closing sessions, a crash between
  the hash and its length, a length that could not be saved, that was read or sent
  while another was, or that came from an outdated answer.
* `UnlockIsAnswered`: the timer of a failed attempt that fires over a later
  attempt, and the late `hydrate()` described above.
* `SettingsSurvive`, `ChoicesKept`: a key whose command failed, was overtaken, or was
  issued before `hydrate()` answered; defaults that stand because the settings could
  not be read; a snapshot emptied because restoring was declined; and, for the next
  start, a choice whose command was still on its way at the exit.
* `NewsNotSkipped`: the first run, and a start that could not read the settings and takes
  itself for one: the news of an update are lost then, although the comment at
  `MainLayout.tsx:169-171` excepts the first run alone.
* `HistoryIsWhatRan`: a line on which the shell's editor was used, or Ctrl-D after
  something, two writes that overlapped, a terminal being closed; from the step on at
  which neither shell nor buffer holds anything it is promised again.

Five relatives are visible in the models without a run of their own. Closing one pane
of an ssh split marks the tab closed, and the automatic reconnection that follows
(`useSessionsStore.ts:350-357`, 303) drops the panes that go on, although line 355
speaks of an unexpected disconnection. Port forwards are exported, but an edit of one
schedules no push (`MainLayout.tsx:143-159` says that every change does).
`resolveActiveTerminal` takes any leaf of a split, also one whose session has ended,
where its comment (`activeTerminal.ts:27-33`) speaks of one that is still alive.
`refreshActive` may apply a list that is already outdated; and the listener of a -L
forward does not watch its session, so it keeps its port after the session died,
although `port_forward/mod.rs:98-102` names that as a reason for it to exit.

## 4. Proofs

No theorem assumes more than the ASSUMEs of its module: types of the constants, what
tells a local tab or no host from a host, and that a PIN has 4 to 12 digits. Every
safety property of a passing run, invariant or action property, is the statement
of a theorem, for every value of the constants.

* `BackendProofs`, the registry. The invariant is `RegInv`: `RegTypeOK` and, for each
  session, `Coupled`: the emit task lives from registration to its announcement,
  only a registered session can be in the map or taken, an announced one has
  left the map, and a running driver is in the map, being closed or held by an SFTP
  command, or is the reader of a shell that was given up.
  `NoUnreachableDriver` alone is not inductive: nothing in it stops an emit task
  that has already finished from having an entry. `RegistryTypes`,
  `DriversReachable` and `RegistryImplementsLifecycle` follow.
* `BackendProofs`, the forwards. `ListenersAlwaysReachable` needs, besides types, that
  a start call that has not bound has no socket, that one which has not inserted is in
  nobody's hands, that a worker being stopped has left the registry, that an idle stop
  call owes nothing, and that two listeners never share a port. With the last part
  `OverwriteIsSafe` proves `OverwriteSparesListener`.
* `BackendProofs`, the file being edited. `EditInv` numbers the saves: the watcher has
  seen none later than the file's, what it is reading lies between the two
  (`InOrder`), and an edit at rest has sent a whole save or nothing (`WholeAtRest`),
  which is not inductive without the first. `EditTyped` and `EditsWholeAtRest`
  follow. `BackendIsThree` maps a behaviour of the composition to one of each
  component, so that `BackendTyped` needs no proof of its own.
* `SessionTabsProofs`. `TabsImplementRegistry`: each action of the front is an action
  of the registry or leaves it alone, so every theorem about the registry holds for
  the tabs (`TabsKeepDriversReachable`). `OrphansAlwaysOverlapped` is proved from
  `TabsInv == TypeOK /\ LeafInv /\ AllCalm`. `LeafInv`: a session's leaf is only ever
  found in the tab its call was made for (in its layout, in its status, in a split
  request, in what a close call has read), a session is in the map only after its call
  succeeded, a tab that is gone holds nothing, and a close call that has worked
  through a leaf has taken its session out of the map. `AllCalm` says of every tab on
  which no two store functions ever overlapped that it is `Calm`: one function at most
  is in flight (`Alone`); the tab's fields have the shape that function left and will
  want (`Shape`, `Awaited`, `Blank`, `CanSplit`, `CanRevert`, `Closes`); and no
  session of it is without a pane (`NoneLost`, which is `OrphansNeedOverlap` of that
  tab). A step of another tab leaves it so by one lemma, `CalmElsewhere`; each store
  function has its own. The lemma `SetTabWrites` states what `SetTab` does to the
  fields, and the action lemmas use it with `SetTab` unexpanded.
* `VaultLockProofs`. Every step of the composition, `lock()` and its clean-up
  included, is a step of the registry and of the forwards or leaves them alone:
  `LockImplementsRegistry` and `LockImplementsForwards`, so their theorems hold
  behind the lock screen too. `LockInv` is the two invariants above with what a
  `lock()` call relies on between its awaits. `LockCloses`: a tab it has read and is
  done with is gone or being closed by it. `LockStopsAll`: a worker it has found
  stays in the registry until stop-all, or somebody before it, takes it out.
  `LockTyped` and `LockAlwaysCovers` follow. `LockCovers` itself says nothing of
  a `lock()` half way, so it is not inductive; that it carries over to
  the screen rests on `TabsGoOneWay`: ids of tabs are not used again.
* `GitSyncProofs`. `SyncInv` is `SyncTypeOK` and, for each machine, `Bounded`
  (commits it names are on the branch) and, unless a push and a pull have
  overlapped, `Orderly`. That is: one of them at most is in flight (`Alone`); a pull
  goes on only for a commit newer than the row's (`RowRead`) and carries that
  commit's vault from the clone to the database, stage by stage (`CloneRead`); a
  push carries its snapshot to the branch (`SnapShipped`); what the clone stands at is
  in the database or in the snapshot taken of it (`Taken`); what the row names
  is in the database while it is the last commit (`Applied`). "In the database"
  excepts what the user deleted. `SyncTyped`, `UpToDateIsApplied` and
  `PushTakesOnlyRemoved` follow. After an overlap the stages say nothing of one
  another any more, which is why both properties except it.
* `ScreensProofs`, the two components that live on the settings table. `PinInv` joins
  to the types (`PinShape`): what a command can be doing (`CallsNamed`); an answer
  that no later write has outdated still says what the table holds (`AnswersTrue`);
  `hydrate()` answers that there is no PIN, where there is one by now, only to a
  program that was open when it was chosen (`OpenWhenTold`); only a program with a PIN
  is locked or locking (`LockedHasPin`); while nothing but the slips of the timer and
  of `hydrate()` has happened (`Calm`), no remembered length, in the table, in memory
  or inside a call, is longer than 0 and shorter than the PIN (`LengthsFit`), for
  which the length read at the start and the one a dialog sends must not meet
  (`LengthsApart`); and one verification runs at a time (`OneAttempt`).
  `AlwaysStartsLocked`, `NeverLocksOut` and `UnlockAnswered` follow. `NeverLockedOut`
  is not inductive: it says nothing of lengths on their way. A first proof of
  `UnlockAnswered` failed on a state in which the answer of `hydrate()` was still
  under way when the user had already locked; the code can reach it, so model and
  property now name it. `SettingsInv` says where a value can be: before the settings
  are read nothing is on its way for an undisturbed key and what was read is in the
  row (`Untouched`); after, what is on its way for it is what the store holds, and
  with nothing on its way the row holds it, unless the read failed and the store has
  the default (`InStep`); the tabs in the store are those that are open, unless
  restoring was declined (`SnapshotKept`); the user's choice is in the row or on its
  way there, and in the store once that has been read (`Wished`); and every copy of a
  last seen release, in the table, in memory, being read or being written, is one
  whose news was shown or was skipped by a start that takes itself for the first
  (`Told`). `SettingsAlwaysSurvive`, `ChoicesAlwaysKept` and `NewsAlwaysShown` follow.
* `ScreensProofs`, snippets and history. `JobShape` and `DataShape` are the types with
  what the fields of a job say about one another (`JobStages`); `CommandsTyped`
  follows. On them stands `Captured`: unless a pane is stray (an editing key was used
  on its line, two writes overlapped, or it is being closed) its capture buffer is
  what its shell has received, but for the one write that has reached the shell and
  not yet the buffer, whose line, if it ends one, has been run (`Follows`); what waits
  to be recorded, and every row, has been run or comes from a stray pane.
  `HistoryWasRun` follows. `HistoryIsWhatRan` is not inductive: it says nothing about
  the buffers that rows are made from. The library's well-founded induction gives the
  least pane that `ActiveTerminal` chooses.
* `ScreensProofs`, the types. `PinTyped` adds two things to `PinInv`: a length that
  any command carries is that of a PIN or 0, and each verification took a step of
  the user's and becomes at most one timer (`TimersCounted`, by cardinalities).
  `LaunchTyped` needs that `filter` returns a list of what passes
  (`OnlyTyped`): `KeptExists` shows by the least counterexample that the recursive
  function `Only` is defined by exists, and the same argument runs along it. Then
  what is on its way fits its key and what the restoration holds is a snapshot
  (`LaunchFits`). `ScreensTyped` puts them together with `InventoryTypesHold` and
  `CommandsTyped`.
* `FilesProofs`. `FilesInv` adds to the types of Files: a slot without a transfer has
  no row (`FreeHasNoRow`); what is selected was picked in the directory that is shown
  (`SelectionPicked`), so a deletion or a drag, made of rows of that selection, names
  only what was picked; and, for a pane that is not in doubt, `Current`: it awaits one
  answer at most (`OneCall`), a listing already read is what the directory holds
  (`ReadCurrent`), and with no answer awaited each name is shown as it is on disk
  (`ShownCurrent`), unless a transfer-done is on its way for it. `FreshUnlessInDoubt`
  alone is not inductive: it says nothing while a call or a transfer-done is under
  way. That a transfer refreshes the right pane rests on the lemma `JoinPath`:
  `parentOf` undoes `joinPath`. `FilesTyped`, `PanesAlwaysFresh` and
  `AlwaysActsOnPicked` follow.
* `ViewsProofs`. Its lemmas are about layouts as functions on paths: a layout is a
  tree (`Tree`: closed upwards, both turns below a split, of bounded depth), and so is
  what `SplitAt`, `ReplaceLeaf`, `RemoveLeaf` and `SetRatioAt` make of one. For
  `RemoveLeaf` this rests on `MovedTo` and `CameFrom` undoing one another on what is
  left. `PanesInv` says, of the tab's layout and of those that `closePane` calls have
  read (`LayoutsFit`), that each is a tree with each pane and each divider once, and
  that the session of a split in flight is nowhere yet, nor its placeholder before it
  is shown, so that no name enters a layout twice; that splits have names of their own
  (`SplitsFit`); that a divider held under an unchanged layout is the one the mouse
  took (`DragHolds`); that the session of a reconnection is none that a split will
  have (`RedialsFit`). `PanesTypeOK` is not inductive: it says nothing of the layouts
  in the hands of `closePane`, which are written back. `PanesTyped`,
  `PlacesAlwaysKept`, `DividersAlwaysStay` and `PanesInARow` (the order of the panes
  is total) follow, and `ViewsTyped` with `FilesTyped`.
* `InventoryProofs`. `StoresFollow` speaks of a moment when nothing is on its way,
  `OnlyToggledChange` of the step in which the database executes a command;
  neither says what a request carries until then. `InventoryInv` does, in layers:
  - `InventoryTyped`: the types, with what a request can be doing (`Stages`).
  - `Born`: only ids that were given out occur, so a row created now is in
    no list, form or request.
  - `Held`, `OneSole`: at most one unanswered command was executed with nothing
    executed since, and the database is as it left it; `ReadTrue`: a list that was
    read and not outdated since is what the database holds.
  - `HostsFollow`, `RowsFollow`, `RefsFollow`, `GroupsShown`: what is not `dubious` is
    in a store as in the database, but for the commands executed whose answer has not
    been applied.
  - `FormTrue`, `AskedTrue`, `OfThisOpening`: a form that is sure of its references
    differs from the database only in what was toggled in it; a request that is
    not hasty asks for nothing else; a refresh that is not late belongs to the opening
    on the screen.

  Each layer is kept on the strength of the ones before it, action by action, and
  `StoresAlwaysFollow` and `ChangesOnlyToggled` follow. For `InventoryTypesHold` a
  second invariant, `ColumnHoldsOne`, follows the one reference a column can hold
  through forms, requests and what they have read, and a third, `Drawing`, types what
  `ServerList` draws from.

Only model-checked: liveness (`EndIsAnnounced`, `AnnouncedIsOver`, `ConnectingEnds`,
`CloserEnds`, `AutoLoopEnds`, `StopFreesPort`, `LockCompletes`, `SavesReachRemote`,
`EditsAreShipped`), which needs fairness and ENABLED. The five findings need no proof:
each is a counterexample.

## 5. Not modelled, and what is left

Left out for good: bytes (terminal data, file contents, what a bridge copies),
cryptography, rendering, shortcuts and the palette, the updater, and the keychain
itself, a thin wrapper. SSH configuration import, snippet substitution and
the SOCKS5 handshake are sequential, each with unit tests beside it, and nothing else
sees them half done; so are the order of authentication attempts and the cycle check
of the jump chain.

Left out because a module would say little that is not said:

* Host key verification: two statements on one table. Two first connections may
  both find no row and both insert, and the second fails on the unique key.
* `local_send_input` writes to the terminal while it holds the entry's Mutex, so a
  shell that does not read blocks `local_close`; this needs the kernel's terminal
  buffer.
* `sync_test_connection` borrows the keychain's token; importing in Merge mode
  twice duplicates forwards; a failed first connection deletes the saved password.
* `cancel_remote_edit`: the front end never calls it.

Left out of modelled components, as their status `partly` says: resize and the
connect scripts of a session; titles; typing to a broadcast group; a forward's
other fields; an identity's own keys, a group's name, ProxyJump and the advanced
fields of a host, tag filters, the editor of snippets; the figures of a transfer's
progress and partial copies of a directory; settings that only decorate.

Left to do, in this order:

1. GitSync: a changed repository URL (the workdir is removed under a push in
   flight), several machines in one instance.
2. VaultLock over PinLock: one `lock()` instead of each taking the other's as given.
3. Merge mode of `apply_bundle` against a reference definition.
