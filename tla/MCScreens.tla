----------------------------- MODULE MCScreens -----------------------------
(***************************************************************************)
(* The screens that do not share state, side by side: a behaviour is one   *)
(* of Inventory, PinLock, Launch or Commands, the others staying as they   *)
(* start.                                                                  *)
(***************************************************************************)
EXTENDS Inventory, PinLock, Launch, Commands

CONSTANTS h1, h2, r1, r2, q1, q2, p4, p5, c1, c2, c3, place,
          tabA, tabB, hostA, s1, s2, j1, j2

MCHosts == {h1, h2}
MCRows == {r1, r2}
MCReqs == {q1, q2}
MCPins == {p4, p5}
MCPinLen(p) == IF p = p4 THEN 4 ELSE 5
MCCalls == {c1, c2, c3}
MCPlaces == {place}
MCVersions == {1, 3}
MCNews == {2, 3}
MCPanes == 1..3
MCTabOf(p) == IF p = 3 THEN tabB ELSE tabA
MCHostOf(t) == IF t = tabA THEN hostA ELSE Anywhere
MCSnippets == {s1, s2}
MCCustom == {s2}
MCJobs == {j1, j2}

VARIABLE unit

ScreensInit ==
    /\ unit \in {"inventory", "pin", "launch", "commands"}
    /\ InvInit /\ (unit = "inventory" \/ kind = "group")
    /\ PinInit /\ (unit = "pin" \/ (hash = NoPin /\ savedLen = 0))
    /\ LaunchInit /\ (unit = "launch" \/ (row.auto = "ask" /\ row.tabs = <<>> /\ row.seen = 0
                                          /\ version = 1))
    /\ CmdInit /\ live = PANES /\ front # None
    /\ unit = "commands" \/ (front = tabA /\ ~byHost)

ScreensNext ==
    /\ UNCHANGED unit
    /\ \/ unit = "inventory" /\ InvNext /\ UNCHANGED <<pinVars, launchVars, cmdVars>>
       \/ unit = "pin" /\ PinNext /\ UNCHANGED <<ivars, launchVars, cmdVars>>
       \/ unit = "launch" /\ LaunchNext /\ UNCHANGED <<ivars, pinVars, cmdVars>>
       \/ unit = "commands" /\ CmdNext /\ UNCHANGED <<ivars, pinVars, launchVars>>

ScreensSpec == ScreensInit /\ [][ScreensNext]_<<unit, ivars, pinVars, launchVars, cmdVars>>

(* The four modules' type invariants: what each screen holds is what its code
   can have put there. *)
ScreensTypeOK == InvTypeOK /\ PinTypeOK /\ LaunchTypeOK /\ CmdTypeOK
=============================================================================
