------------------------------ MODULE MCLogger ------------------------------
(* Small instances of Logger for TLC. *)
EXTENDS Logger

CONSTANTS t1, t2

TwoThreads == {t1, t2}
=============================================================================
