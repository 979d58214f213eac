---------------------------- MODULE SessionTabs ----------------------------
(***************************************************************************)
(* The front half of the sessions: stores/useSessionsStore.ts with the     *)
(* views that call it, on top of the backend of SessionRegistry.  Every    *)
(* function of the store is asynchronous: it reads the tab, waits for an   *)
(* IPC call, and writes the tab again, and between the two every other     *)
(* function, event and timer may run.  An open attempt, the pending leaf   *)
(* it puts in a layout and the session it yields share one element of      *)
(* Conn.  A layout tree is kept as the set of its leaves ({} when          *)
(* undefined); SplitPanes has the trees.                                   *)
(***************************************************************************)
EXTENDS SessionRegistry, FiniteSets

CONSTANTS Tab,                \* tab ids, each used for one tab
          Kind,               \* the type of each tab: ssh, sftp or local
          Closer,             \* bound: closeTab / closePane calls in flight
          UserCloser,         \* those a click may use
          MaxClicks,          \* bound: clicks waiting for the keychain
          MaxTries,           \* length of the back-off list (4 in the code)
          AutoReconnect,      \* the setting of the same name
          None

Sess(c) == <<"session", c>>
Pend(c) == <<"pending", c>>
Leaf == {"session", "pending"} \X Conn

ASSUME KindAssumption == Kind \in [Tab -> {"ssh", "sftp", "local"}]
ASSUME MaxTriesAssumption == MaxTries \in Nat \ {0}
ASSUME AutoReconnectAssumption == AutoReconnect \in BOOLEAN
ASSUME NoneAssumption == None \notin Tab \cup Leaf
ASSUME CloserAssumption == UserCloser \subseteq Closer

VARIABLES
  status,     \* SessionTab.status.kind; "absent" before, "removed" after
  pane,       \* {status.sessionId} while the status is open, else {}
  layout,     \* leaves of SessionTab.layout, {} when undefined
  call,       \* one open_ssh_session / open_local_session call per Conn
  auto,       \* maybeAutoReconnect's loop for each tab
  closer,     \* closeTab / closePane calls in flight
  attach,     \* mounted TerminalViews whose listen() has not resolved
  listening,  \* sessions whose mounted TerminalView hears session-closed
  leaked,     \* listeners registered after their view was unmounted
  locked,     \* the vault's lock; only VaultLock changes it
  crowded     \* history: tabs on which store functions overlapped (see below)

tabVars == <<status, pane, layout>>
viewVars == <<attach, listening, leaked>>
vars == <<backend, tabVars, viewVars, call, auto, closer, locked, crowded>>

NoCall == [state |-> "unused", by |-> "open", tab |-> None, from |-> None]
AutoOff == [state |-> "off", tries |-> 0]
(* An answered call is only remembered for the tab it was made for. *)
Settle(c) == call' = [call EXCEPT ![c] = [state |-> "settled", by |-> "open",
                                          tab |-> @.tab, from |-> None]]
IdleCloser == [mode |-> "idle", tab |-> None, list |-> {}, todo |-> {},
               waits |-> {}, snap |-> {}]

---------------------------------------------------------------------------
Exists(t) == status[t] \in {"connecting", "open", "closed"}

(* The leaves closeTab would close and the views would show. *)
Held(t) == IF layout[t] # {} THEN layout[t] ELSE pane[t]

SessionsIn(leaves) == {c \in Conn : Sess(c) \in leaves}

(* SessionPane and SplitLayout: which sessions have a TerminalView.  A tab *)
(* that is connecting shows a spinner, an SFTP tab has no TerminalView.    *)
Terminals(t, st, pn, ly) ==
  IF Kind[t] = "sftp" \/ st = "connecting"
    THEN {}
    ELSE SessionsIn(IF ly # {} THEN ly ELSE pn)

(* open_local_session serves the local tabs, open_ssh_session the others.  *)
Fits(c, t) == (c \in Shell) <=> (Kind[t] = "local")

(* Write a tab and let React follow: a view that goes, or whose place in   *)
(* the tree moved, is unmounted (its listener is dropped if it had been    *)
(* registered, and stays for ever if listen() was still pending); a view   *)
(* that comes, or moved, starts listening.                                 *)
SetTab(t, st, pn, ly, moved) ==
  LET before  == Terminals(t, status[t], pane[t], layout[t])
      after   == Terminals(t, st, pn, ly)
      remount == moved \cap before \cap after
      gone    == (before \ after) \cup remount
  IN /\ status' = [status EXCEPT ![t] = st]
     /\ pane' = [pane EXCEPT ![t] = pn]
     /\ layout' = [layout EXCEPT ![t] = ly]
     /\ attach' = (attach \ gone) \cup (after \ before) \cup remount
     /\ listening' = listening \ gone
     /\ leaked' = leaked \cup (gone \cap attach)

(* A store function is in flight on a tab: clicked and about to run, or    *)
(* waiting for its IPC call.                                               *)
Busy(t) == \/ \E c \in Conn : /\ call[c].tab = t
                              /\ call[c].state \in {"clicked", "sent", "opened"}
           \/ \E k \in Closer : closer[k].tab = t

Crowds(t, condition) == crowded' = IF condition THEN crowded \cup {t} ELSE crowded

(* Mutant: the status is not written. *)
SetClosedNot(t) == UNCHANGED <<tabVars, viewVars>>

(* Mutant: the layout goes too. *)
SetClosedWhole(t) == SetTab(t, "closed", {}, {}, {})

(* patch: the status becomes closed and the session it named is dropped;   *)
(* a layout stays.                                                         *)
SetClosed(t) == SetTab(t, "closed", {}, layout[t], {})

(* splitPane's revert: a layout of fewer than two leaves becomes undefined.*)
Collapsed(leaves) == IF \E x, y \in leaves : x # y THEN leaves ELSE {}

(* Mutant: one attempt too many. *)
AfterFailureLate(tries) == IF tries > MaxTries THEN AutoOff
                           ELSE [state |-> "waiting", tries |-> tries]
(* Mutant: the count starts again. *)
AfterFailureAnew(tries) == [state |-> "waiting", tries |-> 0]

(* maybeAutoReconnect after a failed attempt: the next delay, or the end.  *)
AfterFailure(tries) == IF tries = MaxTries THEN AutoOff
                       ELSE [state |-> "waiting", tries |-> tries]

---------------------------------------------------------------------------
(* A click starts an action; the handler then reads the saved password     *)
(* from the keychain, so the store function runs later, on a tab that may  *)
(* have changed.  The unlock overlay keeps clicks out while locked.        *)
Click(c, by, t, from) ==
  /\ ~locked
  /\ call[c].state = "unused"
  /\ Cardinality({d \in Conn : call[d].state = "clicked"}) < MaxClicks
  /\ call' = [call EXCEPT ![c] = [state |-> "clicked", by |-> by,
                                  tab |-> t, from |-> from]]
  /\ Crowds(t, t # None /\ Busy(t))
  /\ UNCHANGED <<backend, tabVars, viewVars, auto, closer, locked>>

(* MainLayout.handleOpenSession / handleOpenLocal, ConnectDialog. *)
ClickOpen(c) == Click(c, "open", None, None)

(* The Disconnected and LocalExited screens. *)
ClickReconnect(c, t) ==
  /\ Fits(c, t)
  /\ status[t] = "closed"
  /\ layout[t] = {}
  /\ Click(c, "reconnect", t, None)

(* SplitLayout.doSplit, from the toolbar of a terminal pane. *)
ClickSplit(c, t, c2) ==
  /\ Fits(c, t)
  /\ c2 \in Terminals(t, status[t], pane[t], layout[t])
  /\ Click(c, "split", t, Sess(c2))

(* A store function that finds its tab gone returns without a call. *)
ClickLapses(c) ==
  /\ call[c].state = "clicked"
  /\ call[c].by \in {"reconnect", "split"}
  /\ ~Exists(call[c].tab)
  /\ call' = [call EXCEPT ![c] = NoCall]
  /\ UNCHANGED <<backend, tabVars, viewVars, auto, closer, locked, crowded>>

(* openTab / openLocalTab. *)
OpenTab(c, t) ==
  /\ call[c].state = "clicked"
  /\ call[c].by = "open"
  /\ Fits(c, t)
  /\ status[t] = "absent"
  /\ SetTab(t, "connecting", {}, {}, {})
  /\ call' = [call EXCEPT ![c] = [state |-> "sent", by |-> "open",
                                  tab |-> t, from |-> None]]
  /\ Crowds(t, Busy(t))
  /\ UNCHANGED <<backend, auto, closer, locked>>

(* restoreClosedTab: a tab of the previous run comes back as closed. *)
RestoreClosedTab(t) ==
  /\ status[t] = "absent"
  /\ Kind[t] # "local"
  /\ SetTab(t, "closed", {}, {}, {})
  /\ UNCHANGED <<backend, call, auto, closer, locked, crowded>>

(* reconnect, up to the IPC: whatever the tab held is dropped unclosed. *)
StartReconnect(c, t, by) ==
  /\ SetTab(t, "connecting", {}, {}, {})
  /\ call' = [call EXCEPT ![c] = [state |-> "sent", by |-> by,
                                  tab |-> t, from |-> None]]

Reconnect(c) ==
  /\ call[c].state = "clicked"
  /\ call[c].by = "reconnect"
  /\ Exists(call[c].tab)
  /\ StartReconnect(c, call[c].tab, "reconnect")
  /\ UNCHANGED <<backend, auto, closer, locked, crowded>>

(* splitPane, up to the IPC: splitAt puts the pending leaf beside `from`   *)
(* if that leaf is in the layout, and a tab without a layout gets one made *)
(* of `from`, whatever session the tab is showing by then.                 *)
SplitPane(c) ==
  LET t    == call[c].tab
      from == call[c].from
      cur  == IF layout[t] # {} THEN layout[t] ELSE {from}
      new  == IF from \in cur THEN cur \cup {Pend(c)} ELSE cur
  IN /\ call[c].state = "clicked"
     /\ call[c].by = "split"
     /\ Exists(t)
     /\ SetTab(t, status[t], pane[t], new, SessionsIn({from}))
     /\ call' = [call EXCEPT ![c] = [state |-> "sent", by |-> "split",
                                     tab |-> t, from |-> None]]
     /\ UNCHANGED <<backend, auto, closer, locked, crowded>>

---------------------------------------------------------------------------
(* open_ssh_session / open_local_session succeed in the backend; the id is *)
(* on its way to the front.                                                *)
BackendOpens(c) ==
  /\ call[c].state = "sent"
  /\ Register(c)
  /\ call' = [call EXCEPT ![c].state = "opened"]
  /\ UNCHANGED <<tabVars, viewVars, auto, closer, locked, crowded>>

(* openTab / reconnect resume with a session id: patch writes the status   *)
(* of a tab that is still there.                                           *)
TabCallResolves(c) ==
  LET t == call[c].tab
  IN /\ call[c].state = "opened"
     /\ call[c].by # "split"
     /\ IF Exists(t)
          THEN SetTab(t, "open", {Sess(c)}, layout[t], {})
          ELSE UNCHANGED <<tabVars, viewVars>>
     /\ Settle(c)
     /\ auto' = IF call[c].by = "auto" THEN [auto EXCEPT ![t] = AutoOff] ELSE auto
     /\ UNCHANGED <<backend, closer, locked, crowded>>

(* openTab / reconnect resume with an error; maybeAutoReconnect goes on to *)
(* its next delay, or gives up after the last one.                         *)
TabCallRejects(c) ==
  LET t == call[c].tab
  IN /\ call[c].state = "sent"
     /\ call[c].by # "split"
     /\ IF Exists(t)
          THEN SetClosed(t)
          ELSE UNCHANGED <<tabVars, viewVars>>
     /\ call' = [call EXCEPT ![c] = NoCall]
     /\ auto' = IF call[c].by # "auto" THEN auto
                ELSE [auto EXCEPT ![t] = AfterFailure(auto[t].tries + 1)]
     /\ UNCHANGED <<backend, closer, locked, crowded>>

(* splitPane resumes with a session id: the pending leaf becomes the       *)
(* session's, if tab, layout and leaf are still there.                     *)
SplitResolves(c) ==
  LET t == call[c].tab
  IN /\ call[c].state = "opened"
     /\ call[c].by = "split"
     /\ IF Exists(t) /\ Pend(c) \in layout[t]
          THEN SetTab(t, status[t], pane[t],
                      (layout[t] \ {Pend(c)}) \cup {Sess(c)}, {})
          ELSE UNCHANGED <<tabVars, viewVars>>
     /\ Settle(c)
     /\ UNCHANGED <<backend, auto, closer, locked, crowded>>

(* splitPane resumes with an error: the pending leaf is taken out, and a   *)
(* layout of one leaf becomes undefined, which brings back whatever the    *)
(* status points at.                                                       *)
SplitRejects(c) ==
  LET t    == call[c].tab
      rest == layout[t] \ {Pend(c)}
  IN /\ call[c].state = "sent"
     /\ call[c].by = "split"
     /\ IF Exists(t) /\ layout[t] # {}
          THEN \E moved \in SUBSET SessionsIn(rest) :
                 SetTab(t, status[t], pane[t], Collapsed(rest), moved)
          ELSE UNCHANGED <<tabVars, viewVars>>
     /\ Settle(c)
     /\ UNCHANGED <<backend, auto, closer, locked, crowded>>

---------------------------------------------------------------------------
(* listen() resolves for a mounted TerminalView. *)
ListenResolves(c) ==
  /\ c \in attach
  /\ attach' = attach \ {c}
  /\ listening' = listening \cup {c}
  /\ UNCHANGED <<backend, tabVars, leaked, call, auto, closer, locked, crowded>>

(* A TerminalView hears session-closed: markClosed closes the tab          *)
(* whichever pane it came from, and starts maybeAutoReconnect unless its   *)
(* loop runs.                                                              *)
Hears(c) ==
  LET t == call[c].tab
      restart == AutoReconnect /\ Kind[t] = "ssh" /\ auto[t].state = "off"
  IN /\ c \in listening \cup leaked
     /\ Exists(t)
     /\ SetClosed(t)
     /\ auto' = IF restart
                  THEN [auto EXCEPT ![t] = [state |-> "waiting", tries |-> 0]]
                  ELSE auto
     /\ Crowds(t, pane[t] # {} /\ Sess(c) \notin Held(t))

(* The event reaches nobody: events are not buffered for a listener that   *)
(* comes later, and an emit that fails is ignored.                         *)
Misses == UNCHANGED <<tabVars, viewVars, auto, crowded>>

(* The emit task announces the end of the stream ...                       *)
SessionClosed(c) ==
  /\ Announce(c)
  /\ call[c].state \in {"opened", "settled"}
  /\ Hears(c) \/ Misses
  /\ UNCHANGED <<call, closer, locked>>

(* ... or gives a session up whose output it cannot deliver.               *)
SessionGivenUp(c) ==
  /\ EmitFails(c)
  /\ call[c].state \in {"opened", "settled"}
  /\ Hears(c) \/ Misses
  /\ UNCHANGED <<call, closer, locked>>

(* A delay of maybeAutoReconnect is over and the tab is still closed. *)
AutoFires(t, c) ==
  /\ Fits(c, t)
  /\ auto[t].state = "waiting"
  /\ status[t] = "closed"
  /\ call[c].state = "unused"
  /\ StartReconnect(c, t, "auto")
  /\ auto' = [auto EXCEPT ![t].state = "opening"]
  /\ Crowds(t, Busy(t) \/ Held(t) # {})
  /\ UNCHANGED <<backend, closer, locked>>

(* A delay is over and the user acted meanwhile: the loop stops. *)
AutoStops(t) ==
  /\ auto[t].state = "waiting"
  /\ status[t] # "closed"
  /\ auto' = [auto EXCEPT ![t] = AutoOff]
  /\ UNCHANGED <<backend, tabVars, viewVars, call, closer, locked, crowded>>

---------------------------------------------------------------------------
(* Mutant: only the session of the status is closed. *)
BeginCloseTabFirst(k, t) ==
  closer' = [closer EXCEPT ![k] =
    [mode |-> "tab", tab |-> t, list |-> Held(t), todo |-> pane[t],
     waits |-> {}, snap |-> {}]]

(* closeTab reads the tab's leaves once, then closes them one by one. *)
BeginCloseTab(k, t) ==
  closer' = [closer EXCEPT ![k] =
    [mode |-> "tab", tab |-> t, list |-> Held(t), todo |-> Held(t),
     waits |-> {}, snap |-> {}]]

CloseTab(k, t) ==
  /\ ~locked
  /\ closer[k].mode = "idle"
  /\ Exists(t)
  /\ BeginCloseTab(k, t)
  /\ Crowds(t, Busy(t))
  /\ UNCHANGED <<backend, tabVars, viewVars, call, auto, locked>>

(* closePane reads the tab before it closes the pane's session. *)
ClosePane(k, t, leaf) ==
  /\ ~locked
  /\ closer[k].mode = "idle"
  /\ leaf \in Held(t)
  /\ Kind[t] # "sftp"
  /\ status[t] # "connecting"
  /\ closer' = [closer EXCEPT ![k] =
       [mode |-> "pane", tab |-> t, list |-> {leaf}, todo |-> {leaf},
        waits |-> {}, snap |-> layout[t]]]
  /\ Crowds(t, Busy(t))
  /\ UNCHANGED <<backend, tabVars, viewVars, call, auto, locked>>

(* The next close_session call: a registered id is taken and the call      *)
(* waits for its driver; an unknown id, and a pending leaf (parse_id       *)
(* fails, the error is swallowed), return at once.                         *)
CloseNext(k, leaf) ==
  /\ leaf \in closer[k].todo
  /\ closer[k].waits = {}
  /\ IF SessionsIn({leaf}) \cap entries # {}
       THEN \E c \in SessionsIn({leaf}) :
              /\ TakeEntry(c)
              /\ closer' = [closer EXCEPT ![k] = [closer[k] EXCEPT !.todo = @ \ {leaf},
                                                                 !.waits = {c}]]
       ELSE /\ closer' = [closer EXCEPT ![k].todo = @ \ {leaf}]
            /\ UNCHANGED backend
  /\ UNCHANGED <<tabVars, viewVars, call, auto, locked, crowded>>

CloseAnswered(k, c) ==
  /\ c \in closer[k].waits
  /\ CloseReturns(c) \/ KillShell(c)
  /\ closer' = [closer EXCEPT ![k].waits = {}]
  /\ UNCHANGED <<tabVars, viewVars, call, auto, locked, crowded>>

AllClosed(k, mode) == /\ closer[k].mode = mode
                      /\ closer[k].todo = {}
                      /\ closer[k].waits = {}

(* closeTab ends: the tab goes, with any leaf it got since it was read. *)
CloseTabEnds(k) ==
  LET t == closer[k].tab
  IN /\ AllClosed(k, "tab")
     /\ IF Exists(t)
          THEN SetTab(t, "removed", {}, {}, {})
          ELSE UNCHANGED <<tabVars, viewVars>>
     /\ closer' = [closer EXCEPT ![k] = IdleCloser]
     /\ UNCHANGED <<backend, call, auto, locked, crowded>>

(* closePane ends on the tab it had read: without a layout, or with no     *)
(* other leaf in it, it goes on as closeTab ...                            *)
ClosePaneClosesTab(k) ==
  /\ AllClosed(k, "pane")
  /\ closer[k].snap \ closer[k].list = {}
  /\ BeginCloseTab(k, closer[k].tab)
  /\ UNCHANGED <<backend, tabVars, viewVars, call, auto, locked, crowded>>

(* ... and otherwise the layout it had read, less the pane, is written     *)
(* back over the tab's present one.                                        *)
ClosePaneEnds(k) ==
  LET t    == closer[k].tab
      next == closer[k].snap \ closer[k].list
  IN /\ AllClosed(k, "pane")
     /\ next # {}
     /\ IF Exists(t)
          THEN \E moved \in SUBSET SessionsIn(next) :
                 IF Collapsed(next) = {}
                   THEN SetTab(t, "open", next, {}, moved)
                   ELSE SetTab(t, status[t], pane[t], next, moved)
          ELSE UNCHANGED <<tabVars, viewVars>>
     /\ closer' = [closer EXCEPT ![k] = IdleCloser]
     /\ UNCHANGED <<backend, call, auto, locked, crowded>>

(* Backend steps the front does not see. *)
Unseen(action) ==
  action /\ UNCHANGED <<tabVars, viewVars, call, auto, closer, locked, crowded>>

BackendStep(c) == \/ Unseen(StreamEnds(c))
                  \/ Unseen(StopDriver(c))
                  \/ Unseen(SftpBegins(c))
                  \/ Unseen(SftpEnds(c))

---------------------------------------------------------------------------
(* The vault's hydrate: with a PIN the program starts locked. *)
Init == /\ RegInit
        /\ status = [t \in Tab |-> "absent"]
        /\ pane = [t \in Tab |-> {}]
        /\ layout = [t \in Tab |-> {}]
        /\ call = [c \in Conn |-> NoCall]
        /\ auto = [t \in Tab |-> AutoOff]
        /\ closer = [k \in Closer |-> IdleCloser]
        /\ attach = {} /\ listening = {} /\ leaked = {}
        /\ locked \in BOOLEAN
        /\ crowded = {}

CallStep(c) == \/ ClickOpen(c)
               \/ ClickLapses(c)
               \/ Reconnect(c)
               \/ SplitPane(c)
               \/ BackendOpens(c)
               \/ TabCallResolves(c)
               \/ TabCallRejects(c)
               \/ SplitResolves(c)
               \/ SplitRejects(c)
               \/ ListenResolves(c)
               \/ SessionClosed(c)
               \/ SessionGivenUp(c)
               \/ BackendStep(c)

TabStep(t) == \/ RestoreClosedTab(t)
              \/ AutoStops(t)
              \/ \E c \in Conn : \/ ClickReconnect(c, t)
                                 \/ OpenTab(c, t)
                                 \/ AutoFires(t, c)
                                 \/ \E c2 \in Conn : ClickSplit(c, t, c2)
              \/ \E k \in UserCloser : \/ CloseTab(k, t)
                                       \/ \E leaf \in Leaf : ClosePane(k, t, leaf)

CloserStep(k) == \/ \E leaf \in Leaf : CloseNext(k, leaf)
                 \/ \E c \in Conn : CloseAnswered(k, c)
                 \/ CloseTabEnds(k)
                 \/ ClosePaneClosesTab(k)
                 \/ ClosePaneEnds(k)

TabsNext == \/ \E c \in Conn : CallStep(c)
            \/ \E t \in Tab : TabStep(t)
            \/ \E k \in Closer : CloserStep(k)

Spec == Init /\ [][TabsNext]_vars

(* What the runtimes owe: a local shell is spawned or not, a resolved      *)
(* promise and a fired timer are run, a task that can go on does.  Nothing *)
(* is owed by the user or by the peer: an ssh server that accepts the TCP  *)
(* connection and says no more leaves open_ssh_session waiting for ever,   *)
(* since no timeout bounds the connection and keepalives start after it.   *)
Fairness ==
  /\ \A c \in Shell : WF_vars(BackendOpens(c) \/ TabCallRejects(c) \/ SplitRejects(c))
  /\ \A c \in Conn :
       /\ WF_vars(TabCallResolves(c))
       /\ WF_vars(SplitResolves(c))
       /\ WF_vars(SessionClosed(c))
       /\ WF_vars(Unseen(StopDriver(c)))
       /\ WF_vars(Unseen(ReaderEnds(c)))
       /\ WF_vars(Unseen(SftpEnds(c)))
  /\ \A t \in Tab :
       /\ WF_vars(AutoStops(t) \/ \E c \in Conn : AutoFires(t, c))
  /\ \A k \in Closer : WF_vars(CloserStep(k))

FairSpec == Spec /\ Fairness

---------------------------------------------------------------------------
CallRecord == [state : {"unused", "clicked", "sent", "opened", "settled"},
               by : {"open", "reconnect", "split", "auto"},
               tab : Tab \cup {None}, from : Leaf \cup {None}]
CloserRecord == [mode : {"idle", "tab", "pane"}, tab : Tab \cup {None},
                 list : SUBSET Leaf, todo : SUBSET Leaf,
                 waits : SUBSET Conn, snap : SUBSET Leaf]

TypeOK == /\ RegTypeOK
          /\ status \in [Tab -> {"absent", "connecting", "open", "closed", "removed"}]
          /\ pane \in [Tab -> SUBSET Leaf]
          /\ layout \in [Tab -> SUBSET Leaf]
          /\ call \in [Conn -> CallRecord]
          /\ auto \in [Tab -> [state : {"off", "waiting", "opening"}, tries : 0..(MaxTries - 1)]]
          /\ closer \in [Closer -> CloserRecord]
          /\ attach \in SUBSET Conn
          /\ listening \in SUBSET Conn
          /\ leaked \in SUBSET Conn
          /\ locked \in BOOLEAN
          /\ crowded \in SUBSET Tab

(* A server that never answers an open call of the tab. *)
Unanswered(t) == \E c \in Conn \ Shell : call[c].tab = t /\ call[c].state = "sent"

(* Every session the backend keeps, once its open call has been answered,  *)
(* is in the layout or status of its own tab, where closeTab will find it, *)
(* however the streams end and whenever the views listen, as long as three *)
(* things never happen to the tab (`crowded`): one store function begins   *)
(* while another is in flight on it; auto-reconnect reconnects it while    *)
(* its split still holds panes; the end of a session it no longer shows,   *)
(* heard by a listener that outlived its view, closes it under another.    *)
OrphansNeedOverlap ==
  \A c \in entries :
    call[c].state = "settled" => \/ call[c].tab \in crowded
                                 \/ Sess(c) \in Held(call[c].tab)

(* The spinner of a connecting tab stops; that of an ssh tab unless the    *)
(* server leaves its open call unanswered for ever.                        *)
ConnectingEnds ==
  \A t \in Tab : \/ []<>(status[t] # "connecting")
                \/ <>[]Unanswered(t)

(* closeTab and closePane end, also when the session is busy with an SFTP  *)
(* command, its peer hangs up or another call closes the same session.     *)
CloserEnds == \A k \in Closer : (closer[k].mode # "idle") ~> (closer[k].mode = "idle")

(* The reconnection loop of a tab stops: it connects, runs out of delays   *)
(* or sees that the user acted, unless the server never answers, the user  *)
(* clicks for ever or no session of the bound is left.                     *)
AutoLoopEnds ==
  \A t \in Tab : \/ []<>(auto[t].state = "off")
                \/ <>[]Unanswered(t)
                \/ []<>(\E c \in Conn : call[c].state = "clicked")
                \/ <>[](\A c \in Conn : call[c].state # "unused")

---------------------------------------------------------------------------
(* What the comments of useSessionsStore.ts say and the code does not keep *)
(* (see the findings).                                                     *)

(* "The real backend session id replaces the placeholder when the IPC      *)
(* resolves; on failure we revert by removing the placeholder": a pending  *)
(* leaf stands for a call that is still in flight.                         *)
PendingLeafIsOpening ==
  \A t \in Tab, c \in Conn :
    Pend(c) \in Held(t) => call[c].state \in {"sent", "opened"}

===========================================================================
