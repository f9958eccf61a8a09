------------------------- MODULE MC_ExecutionBroker -------------------------
(* Two captured calls and a stream overlap; a fourth request is refused.   *)
EXTENDS ExecutionBroker, TLC

CONSTANTS c1, c2, s1, b1

MCCalls == {c1, c2, b1}
MCStreams == {s1}
MCBlocked == {b1}
=============================================================================
