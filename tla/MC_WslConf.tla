----------------------------- MODULE MC_WslConf -----------------------------
(* Two keys, two edits out at once, one press of Save.                     *)
EXTENDS WslConf

CONSTANTS k1, k2, c1, c2, p1

TwoKeys == {k1, k2}
TwoCalls == {c1, c2}
OnePress == {p1}
=============================================================================
