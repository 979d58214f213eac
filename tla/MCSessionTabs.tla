--------------------------- MODULE MCSessionTabs ---------------------------
(* Small instances of SessionTabs for TLC. *)
EXTENDS SessionTabs, TLC

AllConn == Conn
AllSsh == [t \in Tab |-> "ssh"]
AllLocal == [t \in Tab |-> "local"]
ConnSymmetry == Permutations(Conn)
===========================================================================
