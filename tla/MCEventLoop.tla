---------------------------- MODULE MCEventLoop ----------------------------
(* Small instances of EventLoop for TLC. *)
EXTENDS EventLoop

CONSTANTS u1, u2, t1, t2

MCThreads == {u1, u2}
MCTasks == {t1, t2}
=============================================================================
