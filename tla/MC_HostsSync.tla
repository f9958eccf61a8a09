---------------------------- MODULE MC_HostsSync ----------------------------
(* One instance, two foreign lines, two calls out at once.                 *)
EXTENDS HostsSync

CONSTANTS i1, l1, l2, j1, j2

OneInstance == {i1}
TwoLines == {l1, l2}
TwoJobs == {j1, j2}
=============================================================================
