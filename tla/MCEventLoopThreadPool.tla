----------------------- MODULE MCEventLoopThreadPool -----------------------
(* A small instance of EventLoopThreadPool for TLC: a pool of two threads,  *)
(* the second of which may quit its own loop, and one beside it.            *)
EXTENDS EventLoopThreadPool

CONSTANT owner

OnlyOwner == {owner}
ThreeElts == 1..3
SecondElt == {2}
=============================================================================
