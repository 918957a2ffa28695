------------------------- MODULE MCEventLoopThread -------------------------
(* A small instance of EventLoopThread for TLC. *)
EXTENDS EventLoopThread

CONSTANTS c1, e1

OneCaller == {c1}
OneElt == {e1}
=============================================================================
