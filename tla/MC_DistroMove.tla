--------------------------- MODULE MC_DistroMove ---------------------------
(* Two instances, their two folders and one more; two calls of move().     *)
EXTENDS DistroMove, TLC

CONSTANTS d1, d2, h1, h2, f1, m1, m2

MCDistros == {d1, d2}
MCFolders == {h1, h2, f1}
MCHome == d1 :> h1 @@ d2 :> h2
TwoMoves == {m1, m2}
OneMove == {m1}
AllHosts == [native: BOOLEAN, remote: BOOLEAN]
OldLocalHost == {[native |-> FALSE, remote |-> FALSE]}
=============================================================================
