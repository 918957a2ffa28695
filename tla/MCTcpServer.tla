---------------------------- MODULE MCTcpServer ----------------------------
(* Small instances of TcpServer for TLC. *)
EXTENDS TcpServer, TLC

CONSTANTS base, sub, c1, c2, f1, f2

OneSub == {sub}
TwoConns == {c1, c2}
TwoFds == {f1, f2}
OneConn == {c1}
OneFd == {f1}
Interchangeable == Permutations(TwoConns) \cup Permutations(TwoFds)
=============================================================================
