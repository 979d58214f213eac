----------------------------- MODULE MCForwards -----------------------------
(* Small instances of Forwards for TLC. *)
EXTENDS Forwards

OnePort == [f \in Fwd |-> 8080]
AllLocal == [f \in Fwd |-> "local"]
OnlyRow == [w \in Start |-> CHOOSE f \in Fwd : TRUE]
===========================================================================
