----------------------------- MODULE MCSockets -----------------------------
(* Small instances of Sockets for TLC. *)
EXTENDS Sockets, TLC

CONSTANTS s1, s2, l1, l2, u1, u2, f1, f2

TwoStreams == {s1, s2}
OneListen == {l1}
TwoListens == {l1, l2}
TwoUdps == {u1, u2}
TwoFds == {f1, f2}
Nothing == {}
Interchangeable == Permutations(TwoStreams) \cup Permutations(TwoListens)
                       \cup Permutations(TwoUdps) \cup Permutations(TwoFds)
=============================================================================
