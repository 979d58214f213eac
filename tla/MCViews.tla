------------------------------- MODULE MCViews -------------------------------
(***************************************************************************)
(* What a tab shows, its file browser or its panes: a behaviour is one of  *)
(* Files or of SplitPanes.  One directory d and one file name f, two       *)
(* invokes and one transfer at once.                                       *)
(***************************************************************************)
EXTENDS Files, SplitPanes, TLC

CONSTANTS c1, c2

MCTop == [local |-> <<"C:">>, remote |-> <<"/">>]
MCPlaces == [local |-> {<<"C:", "f">>},
             remote |-> {<<"/", "d">>, <<"/", "d", "f">>}]
MCDisk == [local |-> {<<"C:", "f">>}, remote |-> {<<"/", "d">>}]
MCCalls == {c1, c2}
Symmetry == Permutations(MCCalls)

VARIABLE unit

ViewsInit ==
    /\ unit \in {"files", "panes"}
    /\ FilesInit /\ PanesInit
    /\ unit = "files" \/ scene = "edits"

ViewsNext ==
    /\ UNCHANGED unit
    /\ \/ unit = "files" /\ FilesNext /\ UNCHANGED paneVars
       \/ unit = "panes" /\ PanesNext /\ UNCHANGED fvars

ViewsSpec == ViewsInit /\ [][ViewsNext]_<<unit, fvars, paneVars>>

(* Both modules' type invariants: what a browser and a layout can hold. *)
ViewsTypeOK == FilesTypeOK /\ PanesTypeOK
=============================================================================
