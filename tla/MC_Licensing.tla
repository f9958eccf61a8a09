---------------------------- MODULE MC_Licensing ----------------------------
(* Two PCs share one key.                                                  *)
EXTENDS Licensing, TLC

CONSTANTS d1, d2, q1, q2

TwoDevices == {d1, d2}
TwoRequests == {q1, q2}
Sym == Permutations(Devices) \cup Permutations(Requests)
=============================================================================
