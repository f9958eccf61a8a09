---------------------------- MODULE LicenseManager ----------------------------
(***************************************************************************)
(* One install and the keys its user enters: the checks of lib/api/        *)
(* license_manager.dart that are out at the same time, and the WebLicense* *)
(* preferences they write one await after the other.  The service is seen  *)
(* from outside: it takes some keys and refuses the others (Licensing has  *)
(* it from inside).                                                        *)
(***************************************************************************)
EXTENDS Naturals, FiniteSets

CONSTANTS
  Keys,     \* the licence keys the user has
  WithMail, \* those whose row carries an e-mail address
  Calls,    \* checks that may be out at the same time (a bound)
  MaxEnters, MaxLost, MaxCrashes,
            \* bounds: keys entered, answers lost, kills amid a check
  Nothing

ASSUME KeyAssumption ==
  /\ WithMail \subseteq Keys
  /\ Nothing \notin Keys
  /\ {MaxEnters, MaxLost, MaxCrashes} \subseteq Nat

VARIABLES
  good,     \* the keys the service takes
  prefs,    \* WebLicenseKey, -Valid, -Plan (whose), -CheckedAt, -Email (whose)
  process,      \* _licenseKey, _licenseEmail (whose), _keyLicensed of the process
  calls,    \* the checks that are out
  entered,  \* history: the key entered last, unless another was being entered
            \* beside it, or it was not taken
  count     \* what is bounded, so far

recordVars == <<good, prefs, process, calls, entered, count>>

MaybeKeys == Keys \cup {Nothing}

(* checkedAt: never, within revalidateAfter, before it, or past the grace. *)
Dates == {"never", "fresh", "stale", "lapsed"}

Prefs == [key: MaybeKeys, valid: BOOLEAN, plan: MaybeKeys, checked: Dates,
          mail: MaybeKeys]
AppRecords == [up: BOOLEAN, key: MaybeKeys, mail: MaybeKeys, licensed: BOOLEAN]

(* asking: on its way; yes, no: answered; valid..mail: about to write that *)
(* preference; reject: WebLicenseValid is false, not loaded yet.           *)
Writes == {"valid", "plan", "checked", "mail", "load"}
CallRecords == [key: Keys, action: {"activate", "revalidate"},
                at: {"asking", "yes", "no", "reject"} \cup Writes]

ASSUME NothingAssumption == Nothing \notin CallRecords

RecordInit ==
  /\ good \in SUBSET Keys
  /\ prefs = [key |-> Nothing, valid |-> FALSE, plan |-> Nothing,
              checked |-> "never", mail |-> Nothing]
  /\ process = [up |-> FALSE, key |-> Nothing, mail |-> Nothing, licensed |-> FALSE]
  /\ calls = [c \in Calls |-> Nothing]
  /\ entered = Nothing
  /\ count = [enters |-> 0, lost |-> 0, kills |-> 0]

(* The state has its type, and no record is valid without a key: a kill    *)
(* between two writes leaves none of the kind.                             *)
RecordTypeOK ==
  /\ good \subseteq Keys
  /\ prefs \in Prefs /\ (prefs.valid => prefs.key # Nothing)
  /\ process \in AppRecords
  /\ calls \in [Calls -> {Nothing} \cup CallRecords]
  /\ entered \in MaybeKeys
  /\ count \in [enters: 0..MaxEnters, lost: 0..MaxLost, kills: 0..MaxCrashes]

Out(c) == calls[c] # Nothing
Stands(c, step) == calls[c] # Nothing /\ calls[c].at = step
Call(c, k, action) ==
  [calls EXCEPT ![c] = [key |-> k, action |-> action, at |-> "asking"]]
Step(c, step) == calls' = [calls EXCEPT ![c].at = step]

(* _loadStoredLicense() *)
Loaded(p) ==
  [up |-> TRUE, key |-> p.key, mail |-> p.mail,
   licensed |-> p.key # Nothing /\ p.valid /\ p.checked \in {"fresh", "stale"}]

(* Mutants: an old record that was rejected is not asked about again.      *)
StaleOfValid(p) ==
  p.key # Nothing /\ p.valid /\ p.checked \in {"never", "stale", "lapsed"}

Stale(p) == p.key # Nothing /\ p.checked \in {"never", "stale", "lapsed"}

(* init(), at the start and whenever the licence page is opened.           *)
LoadRecord ==
  /\ process' = Loaded(prefs)
  /\ IF Stale(prefs)
     THEN \E c \in Calls: ~Out(c) /\ calls' = Call(c, prefs.key, "revalidate")
     ELSE UNCHANGED calls
  /\ UNCHANGED <<good, prefs, entered, count>>

(* The activations that are out.                                           *)
Activating == {c \in Calls: Out(c) /\ calls[c].action = "activate"}
NotTaken(c) == IF c \in Activating THEN Nothing ELSE entered

(* activate(): typed in, or handed over by a link.  The page's             *)
(* _isActivating goes with the page: a second one may begin.               *)
EnterKey(k) ==
  /\ process.up
  /\ count.enters < MaxEnters /\ count' = [count EXCEPT !.enters = @ + 1]
  /\ \E c \in Calls: ~Out(c) /\ calls' = Call(c, k, "activate")
  /\ entered' = IF Activating = {} THEN k ELSE Nothing
  /\ UNCHANGED <<good, prefs, process>>

(* _check(): the service decides, and its answer is on its way back. *)
ServiceAnswers(c) ==
  /\ Stands(c, "asking")
  /\ Step(c, IF calls[c].key \in good THEN "yes" ELSE "no")
  /\ UNCHANGED <<good, prefs, process, entered, count>>

(* Unreachable at any point: nothing is stored. *)
Unreachable(c) ==
  /\ Stands(c, "asking") \/ Stands(c, "yes") \/ Stands(c, "no")
  /\ count.lost < MaxLost /\ count' = [count EXCEPT !.lost = @ + 1]
  /\ calls' = [calls EXCEPT ![c] = Nothing]
  /\ entered' = NotTaken(c)
  /\ UNCHANGED <<good, prefs, process>>

(* Mutants: the key is the last that is written.                           *)
AcceptKeyLast(c) ==
  /\ \/ Stands(c, "yes") /\ Step(c, "checked")
        /\ prefs' = [prefs EXCEPT !.valid = TRUE]
     \/ Stands(c, "checked") /\ Step(c, "load")
        /\ prefs' = [prefs EXCEPT !.key = calls[c].key, !.checked = "fresh"]
  /\ UNCHANGED <<good, process, entered, count>>

(* _check() accepted: one preference after the other, an await after each. *)
Accept(c) ==
  /\ \/ Stands(c, "yes") /\ Step(c, "valid")
        /\ prefs' = [prefs EXCEPT !.key = calls[c].key]
     \/ Stands(c, "valid") /\ Step(c, "plan")
        /\ prefs' = [prefs EXCEPT !.valid = TRUE]
     \/ Stands(c, "plan") /\ Step(c, "checked")
        /\ prefs' = [prefs EXCEPT !.plan = calls[c].key]
     \/ Stands(c, "checked") /\ Step(c, "mail")
        /\ prefs' = [prefs EXCEPT !.checked = "fresh"]
     \/ Stands(c, "mail") /\ Step(c, "load")
        /\ prefs' = [prefs EXCEPT !.mail = IF calls[c].key \in WithMail
                                           THEN calls[c].key ELSE @]
  /\ UNCHANGED <<good, process, entered, count>>

AcceptDone(c) ==
  /\ Stands(c, "load")
  /\ process' = Loaded(prefs)
  /\ calls' = [calls EXCEPT ![c] = Nothing]
  /\ UNCHANGED <<good, prefs, entered, count>>

(* Mutants: a rejection is forgotten.                                      *)
RejectNothing(c) ==
  /\ Stands(c, "no")
  /\ calls' = [calls EXCEPT ![c] = Nothing]
  /\ UNCHANGED <<good, prefs, process, entered, count>>

(* A rejected activation stores nothing; a rejected re-check, revalidate(),*)
(* drops the entitlement.                                                  *)
Reject(c) ==
  /\ Stands(c, "no")
  /\ IF calls[c].action = "revalidate"
     THEN prefs' = [prefs EXCEPT !.valid = FALSE] /\ Step(c, "reject")
     ELSE calls' = [calls EXCEPT ![c] = Nothing] /\ UNCHANGED prefs
  /\ entered' = NotTaken(c)
  /\ UNCHANGED <<good, process, count>>

RejectDone(c) ==
  /\ Stands(c, "reject")
  /\ process' = Loaded(prefs)
  /\ calls' = [calls EXCEPT ![c] = Nothing]
  /\ UNCHANGED <<good, prefs, entered, count>>

(* The process ends: left when nothing is out, or killed, between two      *)
(* writes perhaps.                                                         *)
Ended == [process EXCEPT !.up = FALSE, !.licensed = FALSE]

Leave ==
  /\ process.up /\ \A c \in Calls: ~Out(c)
  /\ process' = Ended
  /\ UNCHANGED <<good, prefs, calls, entered, count>>

Crash ==
  /\ process.up /\ \E c \in Calls: Out(c)
  /\ count.kills < MaxCrashes /\ count' = [count EXCEPT !.kills = @ + 1]
  /\ process' = Ended
  /\ calls' = [c \in Calls |-> Nothing]
  /\ entered' = IF Activating = {} THEN entered ELSE Nothing
  /\ UNCHANGED <<good, prefs>>

(* Days pass; no check lasts that long. *)
DaysPass ==
  /\ \A c \in Calls: ~Out(c)
  /\ \/ prefs.checked = "fresh" /\ prefs' = [prefs EXCEPT !.checked = "stale"]
     \/ prefs.checked = "stale" /\ prefs' = [prefs EXCEPT !.checked = "lapsed"]
  /\ UNCHANGED <<good, process, calls, entered, count>>

RevokeKey(k) ==
  /\ k \in good
  /\ good' = good \ {k}
  /\ UNCHANGED <<prefs, process, calls, entered, count>>

RecordNext ==
  \/ LoadRecord \/ Leave \/ Crash \/ DaysPass
  \/ \E k \in Keys: EnterKey(k) \/ RevokeKey(k)
  \/ \E c \in Calls:
       ServiceAnswers(c) \/ Unreachable(c) \/ Accept(c) \/ AcceptDone(c)
         \/ Reject(c) \/ RejectDone(c)

RecordSpec == RecordInit /\ [][RecordNext]_recordVars

(* Checks end, days pass and the application is started again when it was  *)
(* left; what the user enters and what goes wrong is bounded.              *)
RecordFairness ==
  /\ WF_recordVars(LoadRecord /\ ~process.up) /\ SF_recordVars(Leave) /\ SF_recordVars(DaysPass)
  /\ \A c \in Calls:
       /\ WF_recordVars(ServiceAnswers(c)) /\ WF_recordVars(Accept(c)) /\ WF_recordVars(AcceptDone(c))
       /\ WF_recordVars(Reject(c)) /\ WF_recordVars(RejectDone(c))

RecordLiveSpec == RecordSpec /\ RecordFairness

----------------------------------------------------------------------------
(* Properties                                                              *)

(* Whatever two checks do to the record, it heals: while the service takes *)
(* the stored key, sooner or later it unlocks Pro.                         *)
GoodKeyHeals == prefs.key \in good ~> process.licensed \/ prefs.key \notin good

(* And a key the service refuses is found out: once it stays the stored    *)
(* key, what is stored says invalid for good and Pro stays off, in the     *)
(* process that is up and in every later one.                              *)
BadKeyFades ==
  <>[](prefs.key \in Keys \ good) => <>[](~prefs.valid /\ ~process.licensed)

(* When every check has ended, the key that was entered last and is still  *)
(* good unlocks Pro and is the one that is shown, as long as the           *)
(* application can have checked it.                                        *)
EnteredKeyStays ==
  process.up /\ entered \in good /\ prefs.checked # "lapsed"
    /\ (\A c \in Calls: ~Out(c))
    => process.licensed /\ process.key = entered
=============================================================================
