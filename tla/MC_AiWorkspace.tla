--------------------------- MODULE MC_AiWorkspace ---------------------------
(* Two calls of the service beside each other.                             *)
EXTENDS AiWorkspace

CONSTANTS c1, c2

MCCalls == {c1, c2}
=============================================================================
