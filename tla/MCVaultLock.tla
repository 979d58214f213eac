---------------------------- MODULE MCVaultLock ----------------------------
(* Small instances of VaultLock for TLC. *)
EXTENDS VaultLock, TLC

AllConn == Conn
AllSshTabs == [t \in Tab |-> "ssh"]
AllLocalTabs == [t \in Tab |-> "local"]
AllRemote == [f \in Fwd |-> "remote"]
OnlyRow == [w \in Start |-> CHOOSE f \in Fwd : TRUE]
OnePort == [f \in Fwd |-> 8080]
ConnSymmetry == Permutations(Conn)
===========================================================================
