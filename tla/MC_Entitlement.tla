---------------------------- MODULE MC_Entitlement ----------------------------
(* What one install keeps of its Pro: a website key and its checks, or the *)
(* Store's own licence.  The two share no preference and a copy that a key *)
(* unlocks asks the Store nothing (_storeQuestionOpen), so the behaviours  *)
(* of the one and of the other are looked at side by side, not interleaved.*)
EXTENDS LicenseManager, StoreEntitlement

CONSTANTS k1, k2, c1, c2

TwoKeys == {k1, k2}
OneWithMail == {k1}
TwoCalls == {c1, c2}

VARIABLE side

entitlementVars == <<recordVars, storeVars, side>>

EntitlementInit == RecordInit /\ StoreInit /\ side \in {"key", "store"}

EntitlementNext ==
  \/ side = "key" /\ RecordNext /\ UNCHANGED <<storeVars, side>>
  \/ side = "store" /\ StoreNext /\ UNCHANGED <<recordVars, side>>

EntitlementSpec ==
  /\ EntitlementInit
  /\ [][EntitlementNext]_entitlementVars
  /\ side = "key" => RecordFairness
  /\ side = "store" => Fairness
=============================================================================
