------------------------------- MODULE Launch -------------------------------
(***************************************************************************)
(* What the program remembers from one start to the next: the rows of the  *)
(* settings table, stores/useSettingsStore.ts, and the effects and dialogs *)
(* of components/MainLayout.tsx that read and write them (open tabs to     *)
(* restore, "what's new", what the window's cross does).  The store        *)
(* changes at once, the row when a command nobody waits for has run.       *)
(***************************************************************************)
EXTENDS Naturals, FiniteSets, SequencesExt

CONSTANTS PLACES, LocalTab,     \* a tab is a host, or a local terminal
          VERSIONS, NEWS,      \* releases installed here, releases with an entry in WHATS_NEW
          OpenTabs,            \* bound: open tabs, and tabs in the first snapshot
          MOVES                \* bound: what the user does, failures and restarts

ASSUME LaunchAssumption ==
    /\ LocalTab \notin PLACES
    /\ VERSIONS \cup NEWS \subseteq Nat \ {0}
    /\ OpenTabs \in Nat /\ MOVES \in Nat

VARIABLES
    row,       \* settings rows: restorable_tabs, auto_restore_sessions, close_behavior, last_seen_version
    store,     \* the same keys in useSettingsStore
    writes,    \* set_setting commands on their way
    boot,      \* hydrate(): asked, read, done, and what it has read
    version,   \* the release that is running
    tabs,      \* the open tabs
    known,     \* useServersStore.hosts
    restore,   \* the restore effect, with what its closure holds
    news,      \* the what's-new effect and dialog
    ask,       \* the close dialog is open
    exiting,   \* exit(0) has been called
    moves,
    wish,      \* history: the last choices the user asked to remember; "unsaved" when
               \*          their command was lost, or cut, and the program started again
    told,      \* history: releases whose news have been shown, or predate the first run
    skipped,   \* history: releases recorded as seen by a start that could not read which were
    lost,      \* history: keys whose last command of this process failed, overtook another,
               \*          or was issued before hydrate() had answered
    unread,    \* history: this process could not read the settings
    emptied    \* history: restoring was declined, and the tabs have not changed since

launchVars == <<row, store, writes, boot, version, tabs, known, restore, news, ask,
                exiting, moves, wish, told, skipped, lost, unread, emptied>>
histories == <<wish, told, skipped, lost, unread, emptied>>

----------------------------------------------------------------------------
(* State *)

Keys == {"tabs", "auto", "close", "seen"}
Autos == {"ask", "yes", "no"}
Actions == {"hide", "quit"}      \* "tray" and "minimize" are one
Defaults == [tabs |-> <<>>, auto |-> "ask", close |-> "ask", seen |-> 0]
Idle == [st |-> "none", tabs |-> <<>>, known |-> {}, auto |-> "ask"]

Ready == boot.st = "done"
(* filter(): what of the sequence t is in S, in its order. *)
Only(t, S) ==
    LET kept[i \in 0..Len(t)] == IF i = 0 THEN <<>>
                                 ELSE IF t[i] \in S THEN Append(kept[i - 1], t[i]) ELSE kept[i - 1]
    IN  kept[Len(t)]

(* The tabs that are not local terminals. *)
Snapshot(t) == Only(t, PLACES)
Snapshots == UNION {[1..n -> PLACES] : n \in 0..OpenTabs}
UpTo(v) == {n \in NEWS : n <= v}
Spend == moves < MOVES /\ moves' = moves + 1
Pending(k) == \E w \in writes : w[1] = k

(* Each new process: what is in memory starts over. *)
Starts ==
    /\ store' = Defaults /\ writes' = {} /\ boot' = [st |-> "asked", was |-> Defaults]
    /\ version' \in VERSIONS
    /\ tabs' = <<>> /\ known' = {} /\ restore' = Idle /\ news' = "none"
    /\ ask' = FALSE /\ exiting' = FALSE
    /\ lost' = {} /\ unread' = FALSE /\ emptied' = FALSE

LaunchInit ==
    /\ row \in [tabs : Snapshots, auto : Autos, close : {"ask"}, seen : {0} \cup VERSIONS]
    /\ store = Defaults /\ writes = {} /\ boot = [st |-> "asked", was |-> Defaults]
    /\ version \in VERSIONS /\ version >= row.seen
    /\ tabs = <<>> /\ known = {} /\ restore = Idle /\ news = "none"
    /\ ask = FALSE /\ exiting = FALSE /\ moves = 0
    /\ wish = [auto |-> row.auto, close |-> row.close]
    /\ told = UpTo(row.seen) /\ skipped = {} /\ lost = {} /\ unread = FALSE /\ emptied = FALSE

(* The settings f, and the snapshot t. *)
With(f, t) == [k \in DOMAIN f \cup {"tabs"} |-> IF k = "tabs" THEN t ELSE f[k]]

(* set(field, value) for the fields of f, on top of the store s. *)
SetAll(s, f) ==
    /\ store' = [k \in Keys |-> IF k \in DOMAIN f THEN f[k] ELSE s[k]]
    /\ writes' = writes \cup {<<k, f[k]>> : k \in DOMAIN f}
    /\ lost' = (lost \ DOMAIN f) \cup {k \in DOMAIN f : Pending(k) \/ ~Ready'}

(* Mutant: the snapshot is only written when a tab is added. *)
TabsAdded(t, f) ==
    LET new == Ready /\ Len(t) > Len(tabs) IN
    /\ tabs' = t /\ emptied' = (emptied /\ ~new)
    /\ SetAll(store, IF new THEN With(f, Snapshot(t)) ELSE f)

(* The tabs become t: once hydrated, the effect on them writes the snapshot,
   besides the settings f that the same handler changes. *)
TabsBecome(t, f) ==
    /\ tabs' = t /\ emptied' = (emptied /\ ~Ready)
    /\ SetAll(store, IF Ready THEN With(f, Snapshot(t)) ELSE f)

----------------------------------------------------------------------------
(* The settings table *)

WriteRuns(w) ==
    /\ w \in writes
    /\ row' = [row EXCEPT ![w[1]] = w[2]]
    /\ writes' = writes \ {w}
    /\ UNCHANGED <<store, boot, version, tabs, known, restore, news, ask, exiting, moves, histories>>

(* The failure is only logged. *)
WriteFails(w) ==
    /\ w \in writes /\ Spend
    /\ writes' = writes \ {w}
    /\ lost' = lost \cup {w[1]}
    /\ UNCHANGED <<row, store, boot, version, tabs, known, restore, news, ask, exiting,
                   wish, told, skipped, unread, emptied>>

SettingsAreRead ==
    /\ boot.st = "asked"
    /\ boot' = [st |-> "read", was |-> row]
    /\ UNCHANGED <<row, store, writes, version, tabs, known, restore, news, ask, exiting, moves, histories>>

----------------------------------------------------------------------------
(* MainLayout: the effects that run when `hydrated` flips, in their order:
   what's new, the snapshot of the tabs, the restoration. *)

Effects(s) ==
    /\ UNCHANGED <<row, version, tabs, known, ask, exiting, wish, told, skipped>>
    /\ emptied' = FALSE
    /\ boot' = [st |-> "done", was |-> Defaults]
    /\ news' = "version"
    /\ SetAll(s, [tabs |-> Snapshot(tabs)])
    /\ restore' = IF s.tabs = <<>> THEN [Idle EXCEPT !.st = "done"]
                  ELSE [st |-> "refreshing", tabs |-> s.tabs, known |-> known, auto |-> s.auto]

HydrationDone ==
    /\ boot.st = "read"
    /\ Effects(boot.was)
    /\ UNCHANGED <<moves, unread>>

(* get_all_settings failed: the defaults stand, and `hydrated` flips all the
   same, so that the effects take the program for a new one. *)
HydrationFails ==
    /\ boot.st = "asked" /\ Spend
    /\ Effects(store)
    /\ unread' = TRUE

HostsAnswer ==
    /\ known # PLACES /\ known' = PLACES
    /\ UNCHANGED <<row, store, writes, boot, version, tabs, restore, news, ask, exiting, moves, histories>>

----------------------------------------------------------------------------
(* "Quoi de neuf" *)

(* Mutant: only the entry of the running release. *)
LatestOnly(seen) == {n \in UpTo(version) : n = version}

(* The entries bundled with this release that are newer than `seen`. *)
WhatsNewSince(seen) == {n \in UpTo(version) : n > seen}

NewsCheck ==
    /\ UNCHANGED <<row, boot, version, tabs, known, restore, ask, exiting, moves, wish, unread, emptied>>
    /\ news = "version"
    /\ IF store.seen = 0
       THEN /\ SetAll(store, [seen |-> version])
            /\ news' = "none"
            /\ IF row.seen = 0 THEN told' = told \cup UpTo(version) /\ UNCHANGED skipped
               ELSE skipped' = skipped \cup UpTo(version) /\ UNCHANGED told
       ELSE /\ UNCHANGED skipped
            /\ IF store.seen # version /\ WhatsNewSince(store.seen) # {}
               THEN /\ news' = "shown" /\ told' = told \cup WhatsNewSince(store.seen)
                    /\ UNCHANGED <<store, writes, lost>>
               ELSE /\ news' = "none" /\ UNCHANGED told
                    /\ IF store.seen = version THEN UNCHANGED <<store, writes, lost>>
                       ELSE SetAll(store, [seen |-> version])

CloseWhatsNew ==
    /\ UNCHANGED <<row, boot, version, tabs, known, restore, ask, exiting, moves, wish, told, skipped, unread, emptied>>
    /\ news = "shown" /\ ~exiting
    /\ news' = "none"
    /\ SetAll(store, [seen |-> version])

----------------------------------------------------------------------------
(* The tabs and their restoration *)

OpenTab_(x) ==
    /\ UNCHANGED <<row, boot, version, known, restore, news, ask, exiting, wish, told, skipped, unread>>
    /\ ~exiting /\ Spend
    /\ Len(tabs) < OpenTabs /\ x \in known \cup {LocalTab}
    /\ TabsBecome(Append(tabs, x), <<>>)

CloseTab_(i) ==
    /\ UNCHANGED <<row, boot, version, known, restore, news, ask, exiting, wish, told, skipped, unread>>
    /\ ~exiting /\ Spend
    /\ i \in 1..Len(tabs)
    /\ TabsBecome(RemoveAt(tabs, i), <<>>)

(* "Rouvrir le dernier onglet fermé" takes the last of the open ones. *)
ReopenTab ==
    /\ UNCHANGED <<row, boot, version, known, restore, news, ask, exiting, wish, told, skipped, unread>>
    /\ ~exiting /\ Spend
    /\ store.tabs # <<>> /\ Last(store.tabs) \in known
    /\ TabsBecome(Append(tabs, Last(store.tabs)), <<>>)

(* applyRestore: the tabs of `list` whose host is in `hosts`. *)
Restored(list, hosts) == tabs \o Only(list, hosts)

(* The snapshot is emptied, and the tabs opened in the meantime leave it too. *)
Forgotten(f) ==
    /\ UNCHANGED tabs /\ emptied' = TRUE
    /\ SetAll(store, With(f, <<>>))

(* The hosts have been asked again, but the closure holds the old ones. *)
RestoreDecided ==
    /\ UNCHANGED <<row, boot, version, news, ask, exiting, wish, told, skipped, unread>>
    /\ restore.st = "refreshing"
    /\ restore' = [restore EXCEPT !.st = IF restore.auto = "ask" THEN "prompt" ELSE "done"]
    /\ CASE restore.auto = "yes" -> TabsBecome(Restored(restore.tabs, restore.known), <<>>)
         [] restore.auto = "no"  -> Forgotten(<<>>)
         [] OTHER -> UNCHANGED <<tabs, store, writes, lost, emptied>>
    /\ \/ known' = PLACES /\ UNCHANGED moves
       \/ Spend /\ UNCHANGED known

(* The dialog is only rendered when the store's snapshot, which the effect on
   the tabs has replaced, is not empty. *)
PromptAnswered(remember) ==
    /\ UNCHANGED <<row, boot, version, known, news, ask, exiting, moves, told, skipped, unread>>
    /\ restore.st = "prompt" /\ store.tabs # <<>> /\ ~exiting
    /\ restore' = [restore EXCEPT !.st = "done"]
    /\ \/ /\ TabsBecome(Restored(store.tabs, known), IF remember THEN [auto |-> "yes"] ELSE <<>>)
          /\ wish' = IF remember THEN [wish EXCEPT !.auto = "yes"] ELSE wish
       \/ /\ Forgotten(IF remember THEN [auto |-> "no"] ELSE <<>>)
          /\ wish' = IF remember THEN [wish EXCEPT !.auto = "no"] ELSE wish

----------------------------------------------------------------------------
(* Settings and the window's cross *)

(* Réglages: what the cross does, and the restoration's toggle. *)
Configure(k, v) ==
    /\ UNCHANGED <<row, boot, version, tabs, known, restore, news, ask, exiting, told, skipped,
                   unread, emptied>>
    /\ ~exiting /\ Spend
    /\ \/ k = "close" /\ v \in Actions \cup {"ask"}
       \/ k = "auto" /\ v = IF store.auto = "yes" THEN "ask" ELSE "yes"
    /\ SetAll(store, [x \in {k} |-> v])
    /\ wish' = [wish EXCEPT ![k] = v]

CloseRequested ==
    /\ ~exiting /\ Spend
    /\ ask' = (ask \/ store.close = "ask")
    /\ exiting' = (store.close = "quit")
    /\ UNCHANGED <<row, store, writes, boot, version, tabs, known, restore, news, histories>>

CloseCancelled ==
    /\ ask /\ ~exiting
    /\ ask' = FALSE
    /\ UNCHANGED <<row, store, writes, boot, version, tabs, known, restore, news, exiting, moves, histories>>

(* Mutant: quitting comes before remembering. *)
CloseChosenQuits(action, remember) ==
    /\ UNCHANGED <<row, boot, version, tabs, known, restore, news, moves, told, skipped, unread, emptied>>
    /\ ask /\ ~exiting
    /\ ask' = FALSE /\ exiting' = (action = "quit")
    /\ wish' = IF remember THEN [wish EXCEPT !.close = action] ELSE wish
    /\ IF remember /\ action # "quit" THEN SetAll(store, [close |-> action])
       ELSE UNCHANGED <<store, writes, lost>>

(* "Se souvenir de mon choix": the command is on its way when exit(0) is called. *)
CloseChosen(action, remember) ==
    /\ UNCHANGED <<row, boot, version, tabs, known, restore, news, moves, told, skipped, unread, emptied>>
    /\ ask /\ ~exiting
    /\ ask' = FALSE /\ exiting' = (action = "quit")
    /\ IF remember
       THEN /\ SetAll(store, [close |-> action])
            /\ wish' = [wish EXCEPT !.close = action]
       ELSE UNCHANGED <<store, writes, lost, wish>>

(* The process ends, by exit(0), from the tray or by accident, or to install an
   update, and is started again; what had not been written is lost. *)
Restarted ==
    /\ Spend
    /\ Starts
    /\ wish' = [k \in {"auto", "close"} |-> IF k \in lost \/ Pending(k) THEN "unsaved" ELSE wish[k]]
    /\ UNCHANGED <<row, told, skipped>>

LaunchNext ==
    \/ \E w \in writes : WriteRuns(w) \/ WriteFails(w)
    \/ SettingsAreRead \/ HydrationDone \/ HydrationFails \/ HostsAnswer
    \/ NewsCheck \/ CloseWhatsNew
    \/ \E x \in PLACES \cup {LocalTab} : OpenTab_(x)
    \/ \E i \in 1..Len(tabs) : CloseTab_(i)
    \/ ReopenTab \/ RestoreDecided
    \/ \E remember \in BOOLEAN : PromptAnswered(remember)
    \/ \E k \in {"auto", "close"}, v \in Autos \cup Actions : Configure(k, v)
    \/ CloseRequested \/ CloseCancelled
    \/ \E action \in Actions, remember \in BOOLEAN : CloseChosen(action, remember)
    \/ Restarted

LaunchSpec == LaunchInit /\ [][LaunchNext]_launchVars

----------------------------------------------------------------------------
(* Properties *)

LaunchTypeOK ==
    /\ {row, store, boot.was} \subseteq
          [tabs : Seq(PLACES), auto : Autos, close : Actions \cup {"ask"}, seen : {0} \cup VERSIONS]
    /\ \A w \in writes : w[1] \in Keys
    /\ boot.st \in {"asked", "read", "done"} /\ version \in VERSIONS
    /\ tabs \in Seq(PLACES \cup {LocalTab}) /\ {known, restore.known} \subseteq {{}, PLACES}
    /\ restore.st \in {"none", "refreshing", "prompt", "done"}
    /\ news \in {"none", "version", "shown"} /\ {ask, exiting, unread, emptied} \subseteq BOOLEAN
    /\ lost \subseteq Keys /\ told \cup skipped \subseteq NEWS

(* Once every command has run, the table holds what the store holds, so that a
   crash loses nothing: except a key whose last command failed, overtook
   another, or was issued before hydrate() had answered, and, in a process that
   could not read the settings, a key still at its default.  And the snapshot
   holds the open tabs, or nothing from the moment restoring is declined until
   the tabs change. *)
SettingsSurvive ==
    Ready => /\ \A k \in Keys \ lost : \/ Pending(k) \/ row[k] = store[k]
                                      \/ (unread /\ store[k] = Defaults[k])
             /\ store.tabs = IF emptied THEN <<>> ELSE Snapshot(tabs)

(* A choice the user asked to remember is in force as long as he has not made
   another, across restarts.  The same keys are excepted, and a choice whose
   command was one of those, or was still on its way when the process ended, is
   not promised to the next one. *)
ChoicesKept ==
    Ready => \A k \in {"auto", "close"} \ lost :
                 \/ store[k] = wish[k] \/ wish[k] = "unsaved"
                 \/ (unread /\ store[k] = Defaults[k])

(* A release is not recorded as seen before its news have been shown, even when
   releases were skipped or the program was killed with the news on screen.
   The releases of the first run, which has nothing to tell, count as shown; a
   start that cannot read the settings takes itself for a first run, and what it
   records is excepted. *)
NewsNotSkipped == UpTo(row.seen) \subseteq told \cup skipped

(* RestoreSessionsDialog: "Prompted at startup when the previous session ended
   with open tabs.  Lists what would be restored": the snapshot that was read
   is the one the dialog is given. *)
PromptShowsSnapshot == restore.st = "prompt" => store.tabs = restore.tabs
=============================================================================
