-------------------------- MODULE MCTcpConnection --------------------------
(* Small instances of TcpConnection for TLC. *)
EXTENDS TcpConnection

CONSTANT t1

OneTimer == {t1}
NoTimer == {}
=============================================================================
