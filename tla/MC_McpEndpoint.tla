--------------------------- MODULE MC_McpEndpoint ---------------------------
(* Three calls of the switch out at once, a shell, two starts of a tunnel. *)
(* A shell's manager can differ from that of the tools and that of stop(). *)
EXTENDS McpEndpoint, TLC

CONSTANTS c1, c2, c3, m1, m2, m3, s1, x1, x2, p1, p2

ThreeCalls == {c1, c2, c3}
ThreeManagers == {m1, m2, m3}
OneShell == {s1}
TwoProcs == {x1, x2}
TwoPulls == {p1, p2}
Alike == Permutations(ThreeCalls) \cup Permutations(ThreeManagers)
         \cup Permutations(TwoProcs) \cup Permutations(TwoPulls)
=============================================================================
