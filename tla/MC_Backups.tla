----------------------------- MODULE MC_Backups -----------------------------
(* Two instances whose names clean to one, two runs out at once.           *)
EXTENDS Backups, TLC

CONSTANTS a, b, r1, r2

TwoInstances == {a, b}
OneStem == [i \in TwoInstances |-> a]
TwoRuns == {r1, r2}
AnyRun == Permutations(TwoRuns)
=============================================================================
