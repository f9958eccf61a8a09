-------------------------- MODULE MC_LicenseManager --------------------------
(* Two keys, one with an address, and two checks beside each other.        *)
EXTENDS LicenseManager

CONSTANTS k1, k2, c1, c2

TwoKeys == {k1, k2}
OneWithMail == {k1}
TwoCalls == {c1, c2}
=============================================================================
