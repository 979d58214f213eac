------------------------------ MODULE MCBackend ------------------------------
(***************************************************************************)
(* SessionRegistry, Forwards and RemoteEdit side by side, for TLC: they    *)
(* share no state, so each behaviour is one of `unit` alone, the two       *)
(* others staying as they start.                                           *)
(***************************************************************************)
EXTENDS SessionRegistry, Forwards, RemoteEdit

VARIABLE unit

OnePort == [f \in Fwd |-> 8080]
AllLocal == [f \in Fwd |-> "local"]
OnlyRow == [w \in Start |-> CHOOSE f \in Fwd : TRUE]

BackendVars == <<unit, backend, fwdVars, editVars>>

BackendInit == unit \in {"registry", "forwards", "edit"} /\ RegInit /\ FwdInit /\ EditInit

BackendNext ==
    /\ UNCHANGED unit
    /\ \/ unit = "registry" /\ RegNext /\ UNCHANGED <<fwdVars, editVars>>
       \/ unit = "forwards" /\ FwdNext /\ UNCHANGED <<backend, editVars>>
       \/ unit = "edit" /\ EditNext /\ UNCHANGED <<backend, fwdVars>>

(* No fair action is enabled in a component that stays as it starts. *)
BackendSpec == BackendInit /\ [][BackendNext]_BackendVars /\ RegFairness /\ FwdFairness /\ EditFairness

(* The three modules' type invariants. *)
BackendTypeOK == RegTypeOK /\ FwdTypeOK /\ EditTypeOK
=============================================================================
