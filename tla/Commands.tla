------------------------------ MODULE Commands ------------------------------
(***************************************************************************)
(* Commands put into a terminal and remembered: lib/activeTerminal.ts,     *)
(* the runs of components/SnippetsPanel.tsx with their dialog of variables *)
(* (SnippetVariablesDialog.tsx), components/CommandHistoryDialog.tsx, and  *)
(* in src-tauri/src command_capture.rs, the two commands that write to a   *)
(* terminal and store/command_history.rs.  A command line is a sequence of *)
(* characters; a snippet is one.  The tabs themselves are those of         *)
(* SplitPanes and SessionTabs: here their panes come and go.               *)
(***************************************************************************)
EXTENDS Naturals, Sequences, FiniteSets

CONSTANTS PANES, TabOf(_),      \* panes are numbered in the order of the layout
          HostOf(_), Anywhere,  \* the host of a tab; Anywhere for local shells
          SNIPPETS, Custom,     \* those with variables of their own
          KEY, Blank,           \* what the user types
          JOBS,                 \* bound: commands and runs on their way at once
          TURNS,                \* bound: what the user does, and panes that open or end
          None

ASSUME CommandsAssumption ==
    /\ PANES \subseteq Nat /\ Custom \subseteq SNIPPETS
    /\ None \notin PANES \cup SNIPPETS /\ TURNS \in Nat

VARIABLES
    leaves,    \* panes of the tabs, those that are pending or have ended included
    live,      \* panes with an open session
    front,     \* the active tab; None when it has no terminal
    focus,     \* focusedSessionId, which may have ended or be behind
    byHost,    \* the setting commandHistoryScope is "host"
    job,       \* [JOBS -> a command or a run on its way]
    vars,      \* the snippet whose variables are asked
    hist,      \* the history dialog is open
    listed,    \* the command lines it lists
    rows,      \* table command_history: <<host, command line>>
    line,      \* [PANES -> what the shell has received since the last return]
    draft,     \* [PANES -> CommandCapture's buffer]
    turns,
    ran,       \* history: <<host, trimmed command line>> given to a shell
    stray,     \* history: panes whose buffer may differ from what the shell has
    guessed    \* history: what the buffers of such panes handed over

terminals == <<leaves, live, front, focus, byHost>>
buffers == <<line, draft, ran, stray, guessed>>
cmdVars == <<terminals, job, vars, hist, listed, rows, buffers, turns>>

----------------------------------------------------------------------------
(* State *)

FreeJob == [st |-> "free", op |-> "none", snip |-> None, pane |-> None, key |-> "text", text |-> <<>>,
            ret |-> FALSE, scope |-> Anywhere, found |-> {}, asked |-> FALSE]
Tabs == {TabOf(p) : p \in PANES}
PaneHost(p) == HostOf(TabOf(p))

CmdInit ==
    /\ live \in SUBSET PANES /\ leaves = live /\ front \in {TabOf(p) : p \in live} \cup {None}
    /\ focus = None /\ byHost \in BOOLEAN
    /\ job = [j \in JOBS |-> FreeJob]
    /\ vars = None /\ hist = FALSE /\ listed = {} /\ rows = {}
    /\ line = [p \in PANES |-> <<>>] /\ draft = [p \in PANES |-> <<>>]
    /\ turns = 0 /\ ran = {} /\ stray = {} /\ guessed = {}

Turn == turns < TURNS /\ turns' = turns + 1
Start(c) ==      \* in any free job: they are interchangeable
    LET free == {j \in JOBS : job[j].st = "free"} IN
    free # {} /\ job' = [job EXCEPT ![CHOOSE j \in free : TRUE] = c]

(* "The terminal the user currently sees": the focused pane if it is one of the
   active tab's, else the first one of that tab. *)
ActiveTerminal ==
    LET candidates == {p \in leaves : TabOf(p) = front} IN
    IF candidates = {} THEN None
    ELSE IF focus \in candidates THEN focus
    ELSE CHOOSE p \in candidates : \A q \in candidates : p <= q

(* The scope that the history dialog lists and clears; Anywhere stands for all. *)
Scope == IF byHost /\ ActiveTerminal # None THEN PaneHost(ActiveTerminal) ELSE Anywhere

----------------------------------------------------------------------------
(* The terminals change under the dialogs *)

Terminals(shown, open, tab, pane) ==
    /\ leaves' = shown /\ live' = open /\ front' = tab /\ focus' = pane
    /\ UNCHANGED <<byHost, vars, hist, listed, rows>>

(* A click or the keyboard in a pane, also in one that has ended. *)
FocusPane(p) ==
    /\ p \in leaves /\ TabOf(p) = front /\ focus # p /\ Turn
    /\ Terminals(leaves, live, front, p)
    /\ UNCHANGED <<job, buffers>>

ActivateTab(t) ==
    /\ t # front /\ Turn
    /\ Terminals(leaves, live, t, focus)
    /\ UNCHANGED <<job, buffers>>

(* The shell exits or the connection is lost: a tab that is split keeps the pane. *)
PaneEnds(p) ==
    /\ p \in live /\ Turn
    /\ LET alone == {q \in leaves : TabOf(q) = TabOf(p)} = {p} IN
       Terminals(IF alone THEN leaves \ {p} ELSE leaves, live \ {p}, front, focus)
    /\ UNCHANGED <<job, buffers>>

(* A pane leaves its tab: closed, or dropped by a reconnection, that keeps its session. *)
PaneGoes(p) ==
    /\ p \in leaves /\ Turn
    /\ \E open \in {live, live \ {p}} : Terminals(leaves \ {p}, open, front, focus)
    /\ UNCHANGED <<job, buffers>>

(* A pane is new, pending or open; or the session of a pending one is there.  The
   number of a pane that is gone stands for another one. *)
PaneComes(p) ==
    /\ p \notin live /\ \A j \in JOBS : job[j].pane # p /\ Turn
    /\ LET first == {q \in leaves : TabOf(q) = TabOf(p)} = {} IN
       \E open \in {live \cup {p}} \cup (IF p \in leaves \/ first THEN {} ELSE {live}) :
          Terminals(leaves \cup {p}, open, IF first THEN TabOf(p) ELSE front,
                    IF focus = p THEN None ELSE focus)
    /\ line' = [line EXCEPT ![p] = <<>>] /\ draft' = [draft EXCEPT ![p] = <<>>]
    /\ stray' = stray \ {p}
    /\ UNCHANGED <<job, ran, guessed>>

----------------------------------------------------------------------------
(* Writing to a terminal *)

(* Backspace; Ctrl-C; Ctrl-D; and what the shell's editor makes something of:
   an escape sequence, which drops the rest of its chunk, Tab, Ctrl-U... *)
Controls == {"erase", "cancel", "end", "other"}

Send(p, key, text, ret) ==
    [FreeJob EXCEPT !.st = "asked", !.op = "send", !.pane = p, !.key = key, !.text = text, !.ret = ret]

(* Typing in a pane focuses it. *)
TypeKey(p, key, text, ret) ==
    /\ p \in leaves /\ TabOf(p) = front /\ Turn
    /\ IF key = "text" THEN ret \/ text # <<>> ELSE text = <<>> /\ ~ret
    /\ Terminals(leaves, live, front, p)
    /\ Start(Send(p, key, text, ret))
    /\ UNCHANGED buffers

(* Backspace. *)
Shorter(t) == IF t = <<>> THEN t ELSE SubSeq(t, 1, Len(t) - 1)

(* trim(). *)
Trim(t) ==
    LET ink == {i \in 1..Len(t) : t[i] # Blank} IN
    IF ink = {} THEN <<>>
    ELSE SubSeq(t, CHOOSE i \in ink : \A k \in ink : i <= k, CHOOSE i \in ink : \A k \in ink : k <= i)

(* What the shell makes of its line t: an edit of its own moves the cursor, cuts
   the line, completes it, or recalls one of `past`. *)
ShellLines(t, c, past) ==
    IF c.ret THEN {<<>>}
    ELSE IF c.key = "text" THEN {t \o c.text}
    ELSE IF c.key = "erase" THEN {Shorter(t)}
    ELSE IF c.key = "cancel" THEN {<<>>}
    ELSE IF c.key = "end" THEN {t}
    ELSE {t, <<>>, t \o <<KEY>>} \cup past

(* What feed() makes of the buffer d. *)
Fed(d, c) ==
    IF c.ret THEN <<>>
    ELSE IF c.key = "text" THEN d \o c.text
    ELSE IF c.key = "erase" THEN Shorter(d)
    ELSE IF c.key = "other" THEN d
    ELSE <<>>

Past(p) == {x[2] : x \in {y \in ran : y[1] = PaneHost(p)}}
InFlight(p) == {j \in JOBS : job[j].st = "written" /\ job[j].pane = p}

(* send_terminal_input: the PTY first, under the session's lock... *)
SendWrites(j) ==
    LET c == job[j]
        p == c.pane IN
    /\ c.st = "asked" /\ c.op = "send" /\ p \in live
    /\ job' = [job EXCEPT ![j].st = "written"]
    /\ \E t \in ShellLines(line[p], c, Past(p)) : line' = [line EXCEPT ![p] = t]
    /\ ran' = IF c.ret THEN ran \cup {<<PaneHost(p), Trim(line[p] \o c.text)>>} ELSE ran
    /\ stray' = IF InFlight(p) # {} \/ c.key = "other" \/ (c.key = "end" /\ line[p] # <<>>)
                THEN stray \cup {p} ELSE stray
    /\ UNCHANGED <<terminals, vars, hist, listed, rows, draft, turns, guessed>>

(* ... or no such session, an error as from any other command. *)
CommandFails(j) ==
    /\ job[j].st = "asked"
    /\ job' = [job EXCEPT ![j] = FreeJob]
    /\ UNCHANGED <<terminals, vars, hist, listed, rows, buffers, turns>>

(* Handed over: a line that is complete, and not empty. *)
HandsOver(j, whole) ==
    LET c == job[j] IN
    /\ job' = [job EXCEPT ![j] = IF c.ret /\ whole # <<>> THEN [c EXCEPT !.st = "done", !.text = whole]
                                 ELSE FreeJob]
    /\ guessed' = IF c.ret /\ c.pane \in stray
                  THEN guessed \cup {<<PaneHost(c.pane), Trim(whole)>>} ELSE guessed
    /\ stray' = IF draft'[c.pane] = <<>> /\ line[c.pane] = <<>> /\ InFlight(c.pane) = {j}
                THEN stray \ {c.pane} ELSE stray
    /\ UNCHANGED <<terminals, vars, hist, listed, rows, line, turns, ran>>

(* Mutant: the buffer is not emptied by a return. *)
SendKeeps(j) ==
    LET c == job[j]
        whole == draft[c.pane] \o c.text IN
    /\ c.st = "written"
    /\ draft' = [draft EXCEPT ![c.pane] = IF c.ret THEN whole ELSE Fed(@, c)]
    /\ HandsOver(j, whole)

(* ... then CommandCapture.feed. *)
SendFeeds(j) ==
    LET c == job[j] IN
    /\ c.st = "written"
    /\ draft' = [draft EXCEPT ![c.pane] = Fed(@, c)]
    /\ HandsOver(j, draft[c.pane] \o c.text)

(* close_session and local_close forget the buffer before they take the entry. *)
CloseForgets(p) ==
    /\ p \in live /\ Turn
    /\ draft' = [draft EXCEPT ![p] = <<>>]
    /\ stray' = IF line[p] # <<>> \/ InFlight(p) # {} THEN stray \cup {p} ELSE stray
    /\ UNCHANGED <<terminals, job, vars, hist, listed, rows, line, ran, guessed>>

(* In the background; a failure is only logged. *)
Recorded(j) ==
    LET c == job[j] IN
    /\ c.st = "done" /\ c.op = "send"
    /\ \/ Trim(c.text) # <<>> /\ rows' = rows \cup {<<PaneHost(c.pane), Trim(c.text)>>}
       \/ UNCHANGED rows
    /\ job' = [job EXCEPT ![j] = FreeJob]
    /\ UNCHANGED <<terminals, vars, hist, listed, buffers, turns>>

----------------------------------------------------------------------------
(* Running a snippet: its variables are extracted, asked if some are not
   built in, and the text is rendered, each by a command of its own. *)

RunSnippet(s) ==
    /\ Turn
    /\ Start([FreeJob EXCEPT !.st = "asked", !.op = "extract", !.snip = s])
    /\ UNCHANGED <<terminals, vars, hist, listed, rows, buffers>>

(* builtinValues() takes {{host}} and {{user}} from the terminal active by now. *)
Rendering(s, asked) ==
    [FreeJob EXCEPT !.st = "asked", !.op = "render", !.snip = s, !.asked = asked]

Extracted(j) ==
    LET s == job[j].snip IN
    /\ job[j].op = "extract"
    /\ IF s \in Custom
       THEN vars' = s /\ job' = [job EXCEPT ![j] = FreeJob]
       ELSE job' = [job EXCEPT ![j] = Rendering(s, FALSE)] /\ UNCHANGED vars
    /\ UNCHANGED <<terminals, hist, listed, rows, buffers, turns>>

(* Nothing disables the button, nor Enter, while the text is rendered. *)
ConfirmVars ==
    /\ vars # None /\ Turn
    /\ Start(Rendering(vars, TRUE))
    /\ UNCHANGED <<terminals, vars, hist, listed, rows, buffers>>

DismissVars ==
    /\ vars # None
    /\ vars' = None
    /\ UNCHANGED <<terminals, job, hist, listed, rows, buffers, turns>>

(* Mutant: nothing tells that there is no terminal. *)
RenderedUnchecked(j) ==
    /\ job[j].op = "render"
    /\ vars' = IF job[j].asked THEN None ELSE vars
    /\ job' = [job EXCEPT ![j] = Send(ActiveTerminal, "text", <<job[j].snip>>, TRUE)]
    /\ UNCHANGED <<terminals, hist, listed, rows, buffers, turns>>

(* The answer closes the dialog of variables, whichever it is by now, and the
   text goes to the terminal that is active by now. *)
Rendered(j) ==
    LET c == job[j]
        target == ActiveTerminal IN
    /\ c.op = "render"
    /\ vars' = IF c.asked THEN None ELSE vars
    /\ job' = [job EXCEPT ![j] = IF target = None THEN FreeJob ELSE Send(target, "text", <<c.snip>>, TRUE)]
    /\ UNCHANGED <<terminals, hist, listed, rows, buffers, turns>>

----------------------------------------------------------------------------
(* The history dialog *)

(* recent(): the rows of a host and those of no host. *)
Recent(scope) == {r[2] : r \in {x \in rows : scope = Anywhere \/ x[1] \in {scope, Anywhere}}}

OpenHistory ==
    /\ ~hist /\ Turn
    /\ hist' = TRUE
    /\ Start([FreeJob EXCEPT !.st = "asked", !.op = "list", !.scope = Scope])
    /\ UNCHANGED <<terminals, vars, listed, rows, buffers>>

CloseHistory ==
    /\ hist
    /\ hist' = FALSE
    /\ UNCHANGED <<terminals, job, vars, listed, rows, buffers, turns>>

ListRuns(j) ==
    /\ job[j].st = "asked" /\ job[j].op = "list"
    /\ job' = [job EXCEPT ![j].st = "done", ![j].found = Recent(job[j].scope)]
    /\ UNCHANGED <<terminals, vars, hist, listed, rows, buffers, turns>>

(* Answers are applied in the order they come, open dialog or not. *)
Listed(j) ==
    /\ job[j].st = "done" /\ job[j].op \in {"list", "clear"}
    /\ listed' = job[j].found
    /\ job' = [job EXCEPT ![j] = FreeJob]
    /\ UNCHANGED <<terminals, vars, hist, rows, buffers, turns>>

(* The line is typed, without a return. *)
ChooseLine(text) ==
    /\ hist /\ text \in listed /\ ActiveTerminal # None /\ Turn
    /\ hist' = FALSE
    /\ Start(Send(ActiveTerminal, "text", text, FALSE))
    /\ UNCHANGED <<terminals, vars, listed, rows, buffers>>

(* The scope is computed again, not the one that was listed. *)
ClearHistory ==
    /\ hist /\ Turn
    /\ Start([FreeJob EXCEPT !.st = "asked", !.op = "clear", !.scope = Scope])
    /\ UNCHANGED <<terminals, vars, hist, listed, rows, buffers>>

ClearRuns(j) ==
    /\ job[j].st = "asked" /\ job[j].op = "clear"
    /\ rows' = {r \in rows : job[j].scope # Anywhere /\ r[1] # job[j].scope}
    /\ job' = [job EXCEPT ![j].st = "done"]
    /\ UNCHANGED <<terminals, vars, hist, listed, buffers, turns>>

----------------------------------------------------------------------------

CmdNext ==
    \/ \E p \in PANES : FocusPane(p) \/ PaneEnds(p) \/ PaneGoes(p) \/ PaneComes(p) \/ CloseForgets(p)
    \/ \E t \in Tabs \cup {None} : ActivateTab(t)
    \/ \E p \in PANES, key \in {"text"} \cup Controls, text \in {<<>>, <<KEY>>, <<Blank>>}, ret \in BOOLEAN :
          TypeKey(p, key, text, ret)
    \/ \E s \in SNIPPETS : RunSnippet(s)
    \/ ConfirmVars \/ DismissVars \/ OpenHistory \/ CloseHistory \/ ClearHistory
    \/ \E text \in listed : ChooseLine(text)
    \/ \E j \in JOBS : \/ SendWrites(j) \/ SendFeeds(j) \/ Recorded(j) \/ CommandFails(j) \/ Extracted(j)
                       \/ Rendered(j) \/ ListRuns(j) \/ Listed(j) \/ ClearRuns(j)

CmdSpec == CmdInit /\ [][CmdNext]_cmdVars

----------------------------------------------------------------------------
(* Properties *)

Lines == Seq(SNIPPETS \cup {KEY, Blank})

CmdTypeOK ==
    /\ leaves \cup live \cup stray \subseteq PANES
    /\ front \in Tabs \cup {None} /\ focus \in PANES \cup {None}
    /\ \A j \in JOBS : /\ job[j].pane \in PANES \cup {None} /\ job[j].text \in Lines
                       /\ job[j].op = "send" => job[j].pane \in PANES
    /\ vars \in Custom \cup {None} /\ hist \in BOOLEAN /\ listed \subseteq Lines
    /\ line \in [PANES -> Lines] /\ draft \in [PANES -> Lines]
    /\ \A r \in rows \cup ran \cup guessed : r[2] \in Lines

(* What the history holds was run, but for the blanks around it, in a terminal
   of that host: the buffer follows what the shell receives.  What it may get
   wrong is a line during which the shell's editor was used (the recall and the
   "readline tricks" that command_capture.rs says it misses, a completion),
   Ctrl-D was typed after something, two writes to the terminal overlapped, or
   the terminal was being closed; and it follows again from the moment that
   neither holds anything and nothing is on its way. *)
HistoryIsWhatRan == rows \subseteq ran \cup guessed
=============================================================================
