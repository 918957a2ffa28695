--------------------------- MODULE MCTimerManager ---------------------------
(* A small instance of TimerManager for TLC. *)
EXTENDS TimerManager

CONSTANT u1

OneThread == {u1}
=============================================================================
