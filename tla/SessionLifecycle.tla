------------------------- MODULE SessionLifecycle -------------------------
(***************************************************************************)
(* What the backend promises about one terminal session, whatever the      *)
(* tasks behind it do: a session id is used once, its stream ends once,    *)
(* its closing is announced once, after the stream has ended or because    *)
(* its output cannot be delivered, and a session no command can reach any  *)
(* more never becomes reachable again.                                     *)
(* SessionRegistry is the detailed module; it is shown to implement this   *)
(* one.                                                                    *)
(***************************************************************************)

CONSTANT Conn                 \* one element per session ever opened

VARIABLES phase,              \* where each session is in its life
          reachable           \* the sessions a command can still look up

vars == <<phase, reachable>>

Phase == {"unused", "open", "ended", "given up", "announced"}

Init == /\ phase = [c \in Conn |-> "unused"]
        /\ reachable = {}

Open(c) == /\ phase[c] = "unused"
           /\ phase' = [phase EXCEPT ![c] = "open"]
           /\ reachable' = reachable \cup {c}

End(c) == /\ phase[c] \in {"open", "given up"}
          /\ phase' = [phase EXCEPT ![c] = IF @ = "open" THEN "ended" ELSE "announced"]
          /\ UNCHANGED reachable

(* The announcement withdraws the id at the latest. *)
Announce(c) == /\ phase[c] = "ended"
               /\ phase' = [phase EXCEPT ![c] = "announced"]
               /\ reachable' = reachable \ {c}

(* What cannot be delivered is announced as over while it goes on.         *)
GiveUp(c) == /\ phase[c] = "open"
             /\ phase' = [phase EXCEPT ![c] = "given up"]
             /\ reachable' = reachable \ {c}

(* Closing withdraws the id before the stream has ended. *)
Withdraw(c) == /\ c \in reachable
               /\ reachable' = reachable \ {c}
               /\ UNCHANGED phase

Next == \E c \in Conn : Open(c) \/ End(c) \/ Announce(c) \/ GiveUp(c) \/ Withdraw(c)

Spec == Init /\ [][Next]_vars
===========================================================================
